---- MODULE Spec2Model ----
(***************************************************************************)
(* Model of ublox_nmea (src/ublox_nmea.c): the NMEA-0183 sentence decoder  *)
(* of a MicroPython module.  The module keeps one process-wide record,     *)
(* current_gps_data, that parse() updates from one sentence per call, and  *)
(* offers reset(), current() and calculate_distance().                     *)
(*                                                                         *)
(* Representation.                                                         *)
(*  - A C string is a TLA+ string; a char is a string of length one and    *)
(*    the terminating NUL is the empty string.                             *)
(*  - A double that the code reads from text or rounds to a tenth is a     *)
(*    pair <<n, d>>: the double nearest to the fraction n/d (lowest terms, *)
(*    d > 0); NaN is <<0, 0>>, the infinities are <<1, 0>> and <<-1, 0>>,  *)
(*    0.0 is <<0, 1>> and -0.0 is <<0, -1>>.  n and d are ints, which      *)
(*    bounds the numbers a field can carry.  strtod's scaling by a power   *)
(*    of ten is done on the fraction, exactly, so that the number read is  *)
(*    rounded once.                                                        *)
(*  - The sums, products and quotients of doubles are computed bit for bit *)
(*    in binary64 (see "binary64 arithmetic"), every operation rounded as  *)
(*    the hardware rounds it.  latitude and longitude, the results of      *)
(*    degrees + minutes / 60.0, are held with their bits.                  *)
(*  - uint8_t and uint16_t fields keep their width (% 256, % 65536).       *)
(***************************************************************************)
EXTENDS Integers, Sequences, FiniteSets, TLC

VARIABLES
    current_gps_data,       \* static gps_data_t current_gps_data
    gps_data_initialized,   \* static uint8_t gps_data_initialized
    call,                   \* the last call of the module's API: [op, arg]
    ret,                    \* what that call returned
    ncalls,                 \* how many calls of the API have been made
    history,                \* the lines decoded so far, where a scenario is followed
    coord_in,               \* parse_coordinate under test: its arguments
    coord_out,              \* parse_coordinate under test: its result
    fields_in,              \* parse_fields under test: the fields of its sentence
    fields_out              \* parse_fields under test: its result

vars == <<current_gps_data, gps_data_initialized, call, ret, ncalls, history,
          coord_in, coord_out, fields_in, fields_out>>

----------------------------------------------------------------------------
(* Characters.                                                             *)

\* The printable ASCII characters '$' (36) to 'Z' (90), in code order: the
\* alphabet of the modelled input.
Printable == "$%&'()*+,-./0123456789:;<=>?@ABCDEFGHIJKLMNOPQRSTUVWXYZ"

NUL == ""

CharAt(s, i) == IF i >= 1 /\ i <= Len(s) THEN SubSeq(s, i, i) ELSE NUL

\* The character's code (its value as a C char).
OrdTable == [c \in {CharAt(Printable, i) : i \in 1..Len(Printable)} |-> 35 + (CHOOSE i \in 1..Len(Printable) : CharAt(Printable, i) = c)]

Ord(c) == IF c = NUL THEN 0 ELSE OrdTable[c]

Chr(code) == CharAt(Printable, code - 35)

isdigit(c) == c # NUL /\ Ord(c) >= Ord("0") /\ Ord(c) <= Ord("9")

isxdigit(c) == isdigit(c) \/ (c # NUL /\ Ord(c) >= Ord("A") /\ Ord(c) <= Ord("F"))

\* strchr(s + from - 1, c): the index of the first c at or after from, 0 if none.
strchr(s, from, c) ==
    LET hits == {i \in from..Len(s) : CharAt(s, i) = c}
    IN  IF hits = {} THEN 0 ELSE CHOOSE i \in hits : \A j \in hits : i <= j

\* strstr(s, prefix) == s: s begins with prefix.
StartsWith(s, prefix) ==
    Len(s) >= Len(prefix) /\ SubSeq(s, 1, Len(prefix)) = prefix

----------------------------------------------------------------------------
(* Integers of fixed width.                                                *)

uint8(n) == n % 256

uint16(n) == n % 65536

\* a ^ b on unsigned bytes.
RECURSIVE BitXor(_, _)
BitXor(a, b) ==
    IF a = 0 /\ b = 0 THEN 0
    ELSE (((a % 2) + (b % 2)) % 2) + 2 * BitXor(a \div 2, b \div 2)

----------------------------------------------------------------------------
(* Doubles as fractions: the numbers read from text and the tenths.  A     *)
(* pair stands for the double nearest to its fraction; the order of two    *)
(* tenths is the order of their fractions.                                 *)

NaN == <<0, 0>>

\* INFINITY (sign 1) and -INFINITY (sign -1).
Inf(sign) == <<sign, 0>>

isnan(x) == x[1] = 0 /\ x[2] = 0

isinf(x) == x[1] # 0 /\ x[2] = 0

RECURSIVE Gcd(_, _)
Gcd(a, b) == IF b = 0 THEN a ELSE Gcd(b, a % b)

Abs(n) == IF n < 0 THEN -n ELSE n

\* The double n/d (d # 0), in lowest terms.
Frac(n, d) ==
    LET g == Gcd(Abs(n), Abs(d))
        s == IF d < 0 THEN -1 ELSE 1
    IN  <<s * (n \div g), s * (d \div g)>>

DInt(n) == <<n, 1>>

\* -1, 0 or 1 as x is negative, zero or positive (x not NaN).
DSign(x) == IF x[1] < 0 THEN -1 ELSE IF x[1] > 0 THEN 1 ELSE 0

----------------------------------------------------------------------------
(* binary64 arithmetic: the sums, products and quotients of doubles, each  *)
(* rounded to nearest, ties to even, as the hardware does.  A value is the *)
(* record                                                                  *)
(* [kind, sign, m, e]: of kind "num" it is sign * m * 2^e with the 53-bit  *)
(* significand m = m[1]*2^42 + m[2]*2^28 + m[3]*2^14 + m[4], 2^52 <= m <   *)
(* 2^53; the other kinds are "zero", "inf" and "nan".                      *)

\* The one element of a singleton.
Only(S) == CHOOSE v \in S : TRUE

\* The radix of the four limbs of a significand.
Radix == 16384

\* The limbs of c3*Radix^3 + c2*Radix^2 + c1*Radix + c0, carries and borrows
\* passed upwards.
Limbs(c3, c2, c1, c0) ==
    LET k1 == c1 + (c0 \div Radix)
        k2 == c2 + (k1 \div Radix)
    IN  <<c3 + (k2 \div Radix), k2 % Radix, k1 % Radix, c0 % Radix>>

\* a >= b and a - b (for a >= b) on significands.
MGe(a, b) ==
    IF a[1] # b[1] THEN a[1] > b[1]
    ELSE IF a[2] # b[2] THEN a[2] > b[2]
    ELSE IF a[3] # b[3] THEN a[3] > b[3]
    ELSE a[4] >= b[4]

MSub(a, b) == Limbs(a[1] - b[1], a[2] - b[2], a[3] - b[3], a[4] - b[4])

BNaN == [kind |-> "nan", sign |-> 1, m |-> <<0, 0, 0, 0>>, e |-> 0]

BInf(sign) == [kind |-> "inf", sign |-> sign, m |-> <<0, 0, 0, 0>>, e |-> 0]

BZero(sign) == [kind |-> "zero", sign |-> sign, m |-> <<0, 0, 0, 0>>, e |-> 0]

BNum(sign, m, e) == [kind |-> "num", sign |-> sign, m |-> m, e |-> e]

\* sign * m * 2^e rounded to nearest, ties to even: the bit below the
\* significand is guard, and sticky tells whether anything nonzero lies below
\* that bit.  The increment may carry m to 2^53.
Rounded(sign, m, e, guard, sticky) ==
    IF guard = 1 /\ (sticky \/ m[4] % 2 = 1)
    THEN IF m = <<2047, Radix - 1, Radix - 1, Radix - 1>>
         THEN BNum(sign, <<1024, 0, 0, 0>>, e + 1)
         ELSE BNum(sign, Limbs(m[1], m[2], m[3], m[4] + 1), e)
    ELSE BNum(sign, m, e)

\* The number of bits of n >= 0.
RECURSIVE BitLen(_)
BitLen(n) == IF n = 0 THEN 0 ELSE 1 + BitLen(n \div 2)

\* The int n as a double (exact: an int has at most 31 bits): its bits moved
\* up by s = 14*q + t places to make a significand of 53 bits.
OfInt(n) ==
    IF n = 0 THEN BZero(1)
    ELSE LET a == Abs(n)
             s == 53 - BitLen(a)
             hi == (a \div Radix) * 2^(s % 14)
             lo == (a % Radix) * 2^(s % 14)
         IN  BNum(IF n < 0 THEN -1 ELSE 1,
                  CASE s \div 14 = 1 -> Limbs(0, hi, lo, 0)
                    [] s \div 14 = 2 -> Limbs(hi, lo, 0, 0)
                    [] s \div 14 = 3 -> <<a * 2^(s % 14), 0, 0, 0>>,
                  -s)

\* <<floor(r * 2^k / y), (r * 2^k) mod y>> for a remainder r < y, by long
\* division: each step doubles the remainder and takes y from it if it can.
RECURSIVE DivBits(_, _, _)
DivBits(r, y, k) ==
    IF k = 0 THEN <<0, r>>
    ELSE Only({Only({IF MGe(r2, y) THEN <<2 * p[1] + 1, MSub(r2, y)>> ELSE <<2 * p[1], r2>> :
                        r2 \in {Limbs(2 * p[2][1], 2 * p[2][2], 2 * p[2][3], 2 * p[2][4])}}) :
                  p \in {DivBits(r, y, k - 1)}})

\* The quotient's next bits in runs of ks[1], ks[2], ... bits, and the
\* remainder after them.
RECURSIVE DivChunks(_, _, _, _)
DivChunks(r, y, ks, acc) ==
    IF ks = <<>> THEN <<acc, r>>
    ELSE Only({DivChunks(p[2], y, Tail(ks), Append(acc, p[1])) :
                  p \in {DivBits(r, y, Head(ks))}})

\* x / y.  The quotient of the significands lies between 1/2 and 2: its 53
\* bits are four limbs c[1][1..4] (behind a leading bit when it is 1 or
\* more), c[1][5] is the guard bit and the remainder c[2] the sticky bit.
BDiv(x, y) ==
    Only({IF a.kind = "nan" \/ b.kind = "nan" THEN BNaN
          ELSE IF a.kind = "inf"
               THEN (IF b.kind = "inf" THEN BNaN ELSE BInf(a.sign * b.sign))
          ELSE IF b.kind = "inf" THEN BZero(a.sign * b.sign)
          ELSE IF b.kind = "zero"
               THEN (IF a.kind = "zero" THEN BNaN ELSE BInf(a.sign * b.sign))
          ELSE IF a.kind = "zero" THEN BZero(a.sign * b.sign)
          ELSE IF MGe(a.m, b.m)
               THEN Only({Rounded(a.sign * b.sign,
                                  <<1024 + c[1][1], c[1][2], c[1][3], c[1][4]>>,
                                  a.e - b.e - 52, c[1][5], c[2] # <<0, 0, 0, 0>>) :
                             c \in {DivChunks(MSub(a.m, b.m), b.m, <<10, 14, 14, 14, 1>>, <<>>)}})
               ELSE Only({Rounded(a.sign * b.sign,
                                  <<c[1][1], c[1][2], c[1][3], c[1][4]>>,
                                  a.e - b.e - 53, c[1][5], c[2] # <<0, 0, 0, 0>>) :
                             c \in {DivChunks(a.m, b.m, <<11, 14, 14, 14, 1>>, <<>>)}}) :
          a \in {x}, b \in {y}})

\* The limbs of the columns cols[i ..] and the carry k, lowest first.
RECURSIVE CarrySeq(_, _, _)
CarrySeq(cols, i, k) ==
    IF i > Len(cols) THEN <<k>>
    ELSE <<(cols[i] + k) % Radix>> \o CarrySeq(cols, i + 1, (cols[i] + k) \div Radix)

\* x * y.  The long multiplication of the significands gives seven columns,
\* lowest first, and from them the eight limbs p of the product, of which the
\* bits from 42 + u on are the significand.
BMul(x, y) ==
    Only({IF a.kind = "nan" \/ b.kind = "nan" THEN BNaN
          ELSE IF a.kind = "inf" \/ b.kind = "inf"
               THEN (IF a.kind = "zero" \/ b.kind = "zero" THEN BNaN ELSE BInf(a.sign * b.sign))
          ELSE IF a.kind = "zero" \/ b.kind = "zero" THEN BZero(a.sign * b.sign)
          ELSE Only({LET u == IF p[8] >= 128 THEN 11 ELSE 10
                     IN  Rounded(a.sign * b.sign,
                                 << (p[7] \div 2^u) + (p[8] % 2^u) * 2^(14 - u),
                                    (p[6] \div 2^u) + (p[7] % 2^u) * 2^(14 - u),
                                    (p[5] \div 2^u) + (p[6] % 2^u) * 2^(14 - u),
                                    (p[4] \div 2^u) + (p[5] % 2^u) * 2^(14 - u) >>,
                                 a.e + b.e + 42 + u,
                                 (p[4] \div 2^(u - 1)) % 2,
                                 p[4] % 2^(u - 1) # 0 \/ p[3] # 0 \/ p[2] # 0 \/ p[1] # 0) :
                        p \in {Only({CarrySeq(c, 1, 0) :
                                  c \in {<< a.m[4] * b.m[4],
                                            a.m[4] * b.m[3] + a.m[3] * b.m[4],
                                            a.m[4] * b.m[2] + a.m[3] * b.m[3] + a.m[2] * b.m[4],
                                            a.m[4] * b.m[1] + a.m[3] * b.m[2] + a.m[2] * b.m[3]
                                                + a.m[1] * b.m[4],
                                            a.m[3] * b.m[1] + a.m[2] * b.m[2] + a.m[1] * b.m[3],
                                            a.m[2] * b.m[1] + a.m[1] * b.m[2],
                                            a.m[1] * b.m[1] >>}})}}) :
          a \in {x}, b \in {y}})

\* v, four limbs, moved down by d bits; the lowest bit is set when a nonzero
\* bit is lost (the sticky bit).
ShiftDown(v, d) ==
    Only({Only({IF (w[4] % 2^(d % 14) # 0 \/ w[5] # 0) /\ r[4] % 2 = 0
                THEN <<r[1], r[2], r[3], r[4] + 1>> ELSE r :
                   r \in {<< w[1] \div 2^(d % 14),
                             (w[2] \div 2^(d % 14)) + (w[1] % 2^(d % 14)) * 2^(14 - (d % 14)),
                             (w[3] \div 2^(d % 14)) + (w[2] % 2^(d % 14)) * 2^(14 - (d % 14)),
                             (w[4] \div 2^(d % 14)) + (w[3] % 2^(d % 14)) * 2^(14 - (d % 14)) >>}}) :
             w \in {CASE d \div 14 = 0 -> <<v[1], v[2], v[3], v[4], 0>>
                      [] d \div 14 = 1 -> <<0, v[1], v[2], v[3], v[4]>>
                      [] d \div 14 = 2 -> <<0, 0, v[1], v[2], v[3] + v[4]>>
                      [] d \div 14 = 3 -> <<0, 0, 0, v[1], v[2] + v[3] + v[4]>>
                      [] d \div 14 >= 4 -> <<0, 0, 0, 0, v[1] + v[2] + v[3] + v[4]>>}})

\* v # 0, four limbs, moved up to make a number of 56 bits, and the number
\* of places it was moved by.
ShiftUp(v) ==
    Only({Only({<<CASE k \div 14 = 0 -> w
                    [] k \div 14 = 1 -> <<w[2], w[3], w[4], 0>>
                    [] k \div 14 = 2 -> <<w[3], w[4], 0, 0>>
                    [] k \div 14 = 3 -> <<w[4], 0, 0, 0>>, k>> :
                   w \in {Limbs(v[1] * 2^(k % 14), v[2] * 2^(k % 14),
                                v[3] * 2^(k % 14), v[4] * 2^(k % 14))}}) :
             k \in {IF v[1] # 0 THEN 14 - BitLen(v[1])
                    ELSE IF v[2] # 0 THEN 28 - BitLen(v[2])
                    ELSE IF v[3] # 0 THEN 42 - BitLen(v[3])
                    ELSE 56 - BitLen(v[4])}})

\* x + y.  hi is the operand of the larger magnitude and lo the other; their
\* significands are taken with three more bits below (times 8), lo's moved
\* down to hi's exponent.  s[1] is the sum or difference brought to 56 bits,
\* s[2] what that added to the exponent: its upper 53 bits are the
\* significand, the next is the guard bit and the last two the sticky bit.
BAdd(x, y) ==
    Only({IF a.kind = "nan" \/ b.kind = "nan" THEN BNaN
          ELSE IF a.kind = "inf"
               THEN (IF b.kind = "inf" /\ b.sign # a.sign THEN BNaN ELSE a)
          ELSE IF b.kind = "inf" THEN b
          ELSE IF a.kind = "zero"
               THEN (IF b.kind = "zero" THEN BZero(IF a.sign = b.sign THEN a.sign ELSE 1) ELSE b)
          ELSE IF b.kind = "zero" THEN a
          ELSE Only({Only({IF s[1] = <<0, 0, 0, 0>> THEN BZero(1)
                           ELSE Rounded(hi.sign,
                                        << s[1][1] \div 8,
                                           (s[1][2] \div 8) + (s[1][1] % 8) * 2048,
                                           (s[1][3] \div 8) + (s[1][2] % 8) * 2048,
                                           (s[1][4] \div 8) + (s[1][3] % 8) * 2048 >>,
                                        hi.e + s[2], (s[1][4] \div 4) % 2, s[1][4] % 4 # 0) :
                        s \in {Only({IF hi.sign = lo.sign
                                     THEN Only({IF c[1] >= Radix THEN <<ShiftDown(c, 1), 1>>
                                                ELSE <<c, 0>> :
                                                   c \in {Limbs(p[1] + q[1], p[2] + q[2],
                                                                p[3] + q[3], p[4] + q[4])}})
                                     ELSE Only({IF c = <<0, 0, 0, 0>> THEN <<c, 0>>
                                                ELSE Only({<<u[1], -u[2]>> : u \in {ShiftUp(c)}}) :
                                                   c \in {MSub(p, q)}}) :
                                  p \in {Limbs(8 * hi.m[1], 8 * hi.m[2], 8 * hi.m[3], 8 * hi.m[4])},
                                  q \in {ShiftDown(Limbs(8 * lo.m[1], 8 * lo.m[2],
                                                         8 * lo.m[3], 8 * lo.m[4]),
                                                   hi.e - lo.e)}})}}) :
                        hi \in {IF a.e > b.e \/ (a.e = b.e /\ MGe(a.m, b.m)) THEN a ELSE b},
                        lo \in {IF a.e > b.e \/ (a.e = b.e /\ MGe(a.m, b.m)) THEN b ELSE a}}) :
          a \in {x}, b \in {y}})

\* x < y; false when either is NaN, as in C.  sx and sy are the signs (0 for
\* a zero); of two numbers of one sign the exponents decide, then the
\* significands.
BLt(x, y) ==
    LET sx == IF x.kind = "zero" THEN 0 ELSE x.sign
        sy == IF y.kind = "zero" THEN 0 ELSE y.sign
        Below(a, b) ==
            IF a.kind = "inf" THEN FALSE
            ELSE IF b.kind = "inf" THEN TRUE
            ELSE a.e < b.e \/ (a.e = b.e /\ ~MGe(a.m, b.m))
    IN  /\ x.kind # "nan"
        /\ y.kind # "nan"
        /\ IF sx # sy THEN sx < sy
           ELSE IF sx = 0 THEN FALSE
           ELSE IF sx = 1 THEN Below(x, y)
           ELSE Below(y, x)

\* round(x) / 10.0, where round takes x to the nearest integer, halves away
\* from zero: with -e - 1 = 14*q + t, halves is floor(2 * m * 2^e).  A zero
\* keeps the sign of x.
Tenths(x) ==
    Only({IF b.kind = "nan" THEN NaN
          ELSE IF b.kind = "inf" THEN Inf(b.sign)
          ELSE IF b.kind = "zero" THEN <<0, b.sign>>
          ELSE LET q == (-b.e - 1) \div 14
                   t == (-b.e - 1) % 14
                   halves ==
                       CASE q = 0 -> b.m[1] * 2^(42 - t) + b.m[2] * 2^(28 - t)
                                         + b.m[3] * 2^(14 - t) + (b.m[4] \div 2^t)
                         [] q = 1 -> b.m[1] * 2^(28 - t) + b.m[2] * 2^(14 - t) + (b.m[3] \div 2^t)
                         [] q = 2 -> b.m[1] * 2^(14 - t) + (b.m[2] \div 2^t)
                         [] q = 3 -> b.m[1] \div 2^t
                         [] q >= 4 -> 0
               IN  IF halves = 0 THEN <<0, b.sign>>
                   ELSE Frac(b.sign * ((halves + 1) \div 2), 10) : b \in {x}})

\* The literal 10.0.
Ten == OfInt(10)

----------------------------------------------------------------------------
(* The numbers of the input.  The double of a fraction takes a long        *)
(* division, so the numbers that the speed, course, dilution and altitude  *)
(* fields of the input lines carry, the tenths they are stored as and the  *)
(* literals of the code are converted once.                                *)

\* For each such number x, a fraction in lowest terms, its double and
\* round(x * 10.0) / 10.0.  The numbers are 0, 0.18, 0.8, 0.9, 1.2, 1.25,
\* 1.3, 1.4, 1.6, 1.8, 2.1, 2.5, 2.8, 10.2, 11.5, 22.4, 54.7, 61.7, 84.4,
\* 545.4, 10, 16, 55 and the literals 4.9, 0.7, 1.5, 3.6, 0.514444.
KnownNumbers ==
    [x \in {<<0, 1>>, <<9, 50>>, <<4, 5>>, <<9, 10>>, <<6, 5>>, <<5, 4>>,
            <<13, 10>>, <<7, 5>>, <<8, 5>>, <<9, 5>>, <<21, 10>>, <<5, 2>>,
            <<14, 5>>, <<51, 5>>, <<23, 2>>, <<112, 5>>, <<547, 10>>,
            <<617, 10>>, <<422, 5>>, <<2727, 5>>, <<10, 1>>, <<16, 1>>,
            <<55, 1>>, <<49, 10>>, <<7, 10>>, <<3, 2>>, <<18, 5>>,
            <<128611, 250000>>} |->
        Only({[double |-> b, tenth |-> Tenths(BMul(b, Ten))] :
                 b \in {BDiv(OfInt(x[1]), OfInt(x[2]))}})]

\* The double that the record holds as x, with its bits: the double nearest
\* to the fraction (what strtod, the compiler and a division by 10.0 yield).
B64(x) ==
    Only({IF v \in DOMAIN known THEN known[v].double
          ELSE IF isnan(v) THEN BNaN
          ELSE IF isinf(v) THEN BInf(v[1])
          ELSE IF v[1] = 0 THEN BZero(v[2])
          ELSE IF v[2] = 1 THEN OfInt(v[1])
          ELSE BDiv(OfInt(v[1]), OfInt(v[2])) : v \in {x}, known \in {KnownNumbers}})

\* round(x * 10.0) / 10.0
Round1(x) ==
    Only({IF v \in DOMAIN known THEN known[v].tenth
          ELSE Tenths(BMul(B64(v), Ten)) : v \in {x}, known \in {KnownNumbers}})

----------------------------------------------------------------------------
(* The C library's conversions, on the modelled alphabet (no white space,  *)
(* no lower case).                                                         *)

RECURSIVE Pow10(_)
Pow10(k) == IF k = 0 THEN 1 ELSE 10 * Pow10(k - 1)

\* The length of the run of digits of s that starts at index i.
RECURSIVE DigitRun(_, _)
DigitRun(s, i) == IF isdigit(CharAt(s, i)) THEN 1 + DigitRun(s, i + 1) ELSE 0

\* The value of the decimal digits s[i .. i+n-1].
RECURSIVE DigitsVal(_, _, _)
DigitsVal(s, i, n) ==
    IF n = 0 THEN 0 ELSE 10 * DigitsVal(s, i, n - 1) + (Ord(CharAt(s, i + n - 1)) - Ord("0"))

SignLen(s) == IF CharAt(s, 1) \in {"+", "-"} THEN 1 ELSE 0

\* v, negated if s begins with a minus sign.
Signed(s, v) == IF CharAt(s, 1) = "-" THEN -v ELSE v

\* atoi(s): an optional sign and the decimal digits that follow; 0 if none.
atoi(s) == Signed(s, DigitsVal(s, SignLen(s) + 1, DigitRun(s, SignLen(s) + 1)))

RECURSIVE HexRun(_, _)
HexRun(s, i) == IF isxdigit(CharAt(s, i)) THEN 1 + HexRun(s, i + 1) ELSE 0

RECURSIVE HexDigitsVal(_, _, _)
HexDigitsVal(s, i, n) ==
    IF n = 0 THEN 0
    ELSE 16 * HexDigitsVal(s, i, n - 1)
         + (IF isdigit(CharAt(s, i + n - 1))
            THEN Ord(CharAt(s, i + n - 1)) - Ord("0")
            ELSE Ord(CharAt(s, i + n - 1)) - Ord("A") + 10)

\* The value of the exponent digits s[i .. i+n-1], no more than 100000.
RECURSIVE ExponentVal(_, _, _)
ExponentVal(s, i, n) ==
    IF n = 0 THEN 0
    ELSE IF 10 * ExponentVal(s, i, n - 1) + (Ord(CharAt(s, i + n - 1)) - Ord("0")) > 100000
         THEN 100000
         ELSE 10 * ExponentVal(s, i, n - 1) + (Ord(CharAt(s, i + n - 1)) - Ord("0"))

\* The exponent at s[j]: the letter mark, an optional sign and digits; 0 when
\* s[j] is not mark or no digit follows (the letter is then not read).
ExponentAt(s, j, mark) ==
    IF CharAt(s, j) # mark THEN 0
    ELSE IF CharAt(s, j + 1) = "-" THEN -ExponentVal(s, j + 2, DigitRun(s, j + 2))
    ELSE IF CharAt(s, j + 1) = "+" THEN ExponentVal(s, j + 2, DigitRun(s, j + 2))
    ELSE ExponentVal(s, j + 1, DigitRun(s, j + 1))

\* x * 10^k, exact: the one rounding of strtod is that of B64.  Past 10^330 the product of a nonzero x of the model is beyond
\* the largest double, below 10^-340 it is nearer to zero than to any other.
Scale10(x, k) ==
    IF x[1] = 0 \/ k = 0 THEN x
    ELSE IF k > 330 THEN Inf(DSign(x))
    ELSE IF k < -340 THEN <<0, DSign(x)>>
    ELSE IF k > 0 THEN LET g == Gcd(Pow10(k), x[2])
                       IN  Frac(x[1] * (Pow10(k) \div g), x[2] \div g)
    ELSE LET g == Gcd(Abs(x[1]), Pow10(-k))
         IN  Frac(x[1] \div g, x[2] * (Pow10(-k) \div g))

\* s[b+1 ..] begins with the three letters of word.
LettersAt(s, b, word) == SubSeq(s, b + 1, IF Len(s) < b + 3 THEN Len(s) ELSE b + 3) = word

\* s[b+1 ..] begins a hexadecimal number: 0X and a hexadecimal digit, with or
\* without a point in front of it.
IsHexText(s, b) ==
    /\ CharAt(s, b + 1) = "0"
    /\ CharAt(s, b + 2) = "X"
    /\ \/ isxdigit(CharAt(s, b + 3))
       \/ CharAt(s, b + 3) = "." /\ isxdigit(CharAt(s, b + 4))

\* The hexadecimal number behind the 0X at s[b+1]: hi digits, hf digits behind
\* a point, and a binary exponent k behind the letter P.  Past 2^1100 a
\* nonzero number of the model is beyond the largest double, below 2^-1200 it
\* is nearer to zero than to any other.
HexFloat(s, b, hi) ==
    LET hf == IF CharAt(s, b + hi + 3) = "." THEN HexRun(s, b + hi + 4) ELSE 0
        n == Signed(s, HexDigitsVal(s, b + 3, hi) * 16^hf + HexDigitsVal(s, b + hi + 4, hf))
        k == ExponentAt(s, b + 3 + (IF CharAt(s, b + hi + 3) = "." THEN hi + 1 + hf ELSE hi), "P")
                 - 4 * hf
    IN  IF n = 0 THEN <<0, Signed(s, 1)>>
        ELSE IF k > 1100 THEN Inf(IF n < 0 THEN -1 ELSE 1)
        ELSE IF k < -1200 THEN <<0, Signed(s, 1)>>
        ELSE IF k >= 0 THEN DInt(n * 2^k)
        ELSE Frac(n, 2^(-k))

\* The decimal number at s[b+1]: ni integer digits, nf fraction digits behind
\* the point after them, and the exponent behind the letter E that follows;
\* 0.0 when there is no digit (the point and the exponent are then not read).
DecimalFloat(s, b, ni, nf) ==
    IF ni + nf = 0 THEN DInt(0)
    ELSE IF DigitsVal(s, b + 1, ni) = 0 /\ DigitsVal(s, b + ni + 2, nf) = 0
         THEN <<0, Signed(s, 1)>>
    ELSE Scale10(Frac(Signed(s, DigitsVal(s, b + 1, ni) * Pow10(nf) + DigitsVal(s, b + ni + 2, nf)),
                      Pow10(nf)),
                 ExponentAt(s, b + (IF CharAt(s, b + ni + 1) = "." THEN ni + 1 + nf ELSE ni) + 1,
                            "E"))

\* strtod after the b characters of the sign and the ni decimal digits.
AtofFrom(s, b, ni) ==
    IF LettersAt(s, b, "NAN") THEN NaN
    ELSE IF LettersAt(s, b, "INF") THEN Inf(Signed(s, 1))
    ELSE IF IsHexText(s, b) THEN HexFloat(s, b, HexRun(s, b + 3))
    ELSE DecimalFloat(s, b, ni, IF CharAt(s, b + ni + 1) = "." THEN DigitRun(s, b + ni + 2) ELSE 0)

\* atof(s): an optional sign, then the letters NAN (not-a-number), the letters
\* INF (infinity), a hexadecimal number behind 0X, or a decimal number - digits
\* with an optional point - and its exponent; 0.0 when none of these is there.
atof(s) == AtofFrom(s, SignLen(s), DigitRun(s, SignLen(s) + 1))

\* strtol(s, NULL, 16): an optional sign, an optional 0X in front of a
\* hexadecimal digit, and the hexadecimal digits that follow, as many as
\* there are; 0 if none.
strtol16(s) ==
    LET i == SignLen(s) + 1
        j == IF CharAt(s, i) = "0" /\ CharAt(s, i + 1) = "X" /\ isxdigit(CharAt(s, i + 2))
             THEN i + 2 ELSE i
    IN  Signed(s, HexDigitsVal(s, j, HexRun(s, j)))

RECURSIVE Digits(_)
Digits(n) == IF n < 10 THEN Chr(Ord("0") + n) ELSE Digits(n \div 10) \o Chr(Ord("0") + (n % 10))

RECURSIVE ZeroPad(_, _)
ZeroPad(s, width) == IF Len(s) >= width THEN s ELSE ZeroPad("0" \o s, width)

\* printf's %0<width>d of a non-negative int.
FmtD(n, width) == ZeroPad(Digits(n), width)

----------------------------------------------------------------------------
(* The coordinate codec, the checksum and the tokenizer.                   *)

\* degree_digits taking one degree digit for a point at index 3.
DegreeDigits_k(dot_index) ==
    CASE dot_index = 2 -> 1
      [] dot_index = 3 -> 1
      [] dot_index = 4 -> 2
      [] dot_index = 5 -> 3
      [] dot_index = 6 -> 4

\* degree_digits by the index of the decimal point, one of 2..6.
DegreeDigits(dot_index) ==
    CASE dot_index = 2 -> 1
      [] dot_index = 3 -> 2
      [] dot_index = 4 -> 2
      [] dot_index = 5 -> 3
      [] dot_index = 6 -> 4

\* degrees + minutes / 60.0 for the degrees and minutes of the coordinates
\* that the input lines carry, computed once.
KnownCoordinates ==
    [x \in {<<<<11, 1>>, <<31, 1>>>>, <<<<13, 1>>, <<24, 1>>>>, <<<<33, 1>>, <<51, 1>>>>,
            <<<<40, 1>>, <<213, 5>>>>, <<<<48, 1>>, <<3519, 500>>>>, <<<<49, 1>>, <<329, 20>>>>,
            <<<<52, 1>>, <<31, 1>>>>, <<<<99, 1>>, <<59, 1>>>>, <<<<123, 1>>, <<278, 25>>>>,
            <<<<151, 1>>, <<12, 1>>>>, <<<<181, 1>>, <<0, 1>>>>} |->
        BAdd(B64(x[1]), BDiv(B64(x[2]), OfInt(60)))]

\* parse_coordinate: dot_index is the index of the first decimal point (-1:
\* none), minutes_str at most 15 characters of what follows the degrees, and
\* the result degrees + minutes / 60.0, the quotient and the sum each rounded,
\* negated for the directions S and W.
parse_coordinate(coord, direction) ==
    IF Len(coord) < 7 THEN BNaN
    ELSE Only({IF dot_index = -1 THEN BNaN
               ELSE IF dot_index \notin 2..6 THEN BNaN
               ELSE Only({IF (direction = "S" \/ direction = "W") /\ result.kind # "nan"
                          THEN [result EXCEPT !.sign = -@] ELSE result :
                        result \in {LET degree_digits == DegreeDigits(dot_index)
                                        rest == SubSeq(coord, degree_digits + 1, Len(coord))
                                        minutes_str ==
                                            SubSeq(rest, 1, IF Len(rest) < 15 THEN Len(rest) ELSE 15)
                                    IN  Only({IF x \in DOMAIN known THEN known[x]
                                              ELSE BAdd(B64(x[1]), BDiv(B64(x[2]), OfInt(60))) :
                                                x \in {<<atof(SubSeq(coord, 1, degree_digits)),
                                                         atof(minutes_str)>>},
                                                known \in {KnownCoordinates}})}}) :
               dot_index \in {strchr(coord, 1, ".") - 1}})

\* calculated_checksum after the loop has folded the bytes s[from .. to] into
\* it with ^=; the fold is split in halves, XOR being associative.
RECURSIVE XorRange(_, _, _)
XorRange(s, from, to) ==
    IF from > to THEN 0
    ELSE IF from = to THEN Ord(CharAt(s, from))
    ELSE LET mid == (from + to) \div 2
         IN  BitXor(XorRange(s, from, mid), XorRange(s, mid + 1, to))

\* checksum_valid: checksum_start is the index of the first '*' (0: none).
checksum_valid(sentence) ==
    IF CharAt(sentence, 1) # "$" THEN FALSE
    ELSE Only({IF checksum_start = 0 THEN FALSE
               ELSE XorRange(sentence, 2, checksum_start - 1)
                    = uint8(strtol16(SubSeq(sentence, checksum_start + 1, Len(sentence)))) :
               checksum_start \in {strchr(sentence, 1, "*")}})

\* The size of the decoders' array char fields[20][16].
MaxFields == 20

\* sizeof(fields[0]): the room of one field, its NUL included.
FieldSize == 16

\* char fields[20][16] = {0}
NoFields(max_fields) == [i \in 0..(max_fields - 1) |-> ""]

\* What parse_fields stores for the field s[start .. end-1].
FieldText(s, start, end) ==
    IF end - start < FieldSize - 1 THEN SubSeq(s, start, end - 1) ELSE ""

\* The loop of parse_fields from the start of a field on (the sentence pointer
\* runs to the next comma, or to the end of the string), and the code after
\* the loop.  The result is [n |-> field_count, f |-> fields].
RECURSIVE ParseFieldsFrom(_, _, _, _, _)
ParseFieldsFrom(s, max_fields, start, field_count, fields) ==
    LET comma == strchr(s, start, ",")
    IN  IF comma # 0 /\ field_count < max_fields
        THEN ParseFieldsFrom(s, max_fields, comma + 1, field_count + 1,
                             [fields EXCEPT ![field_count] = FieldText(s, start, comma)])
        ELSE IF start <= Len(s) /\ field_count < max_fields
             THEN LET star == strchr(s, start, "*")
                      end == IF star = 0 THEN Len(s) + 1 ELSE star
                  IN  [n |-> field_count + 1,
                       f |-> [fields EXCEPT ![field_count] = FieldText(s, start, end)]]
             ELSE [n |-> field_count, f |-> fields]

parse_fields(sentence, max_fields) ==
    ParseFieldsFrom(sentence, max_fields, 1, 0, NoFields(max_fields))

----------------------------------------------------------------------------
(* The input: the lines handed to parse().                                 *)

HexDigits == "0123456789ABCDEF"

\* The two upper-case hexadecimal digits of a byte.
Hex2(n) == CharAt(HexDigits, (n \div 16) + 1) \o CharAt(HexDigits, (n % 16) + 1)

\* The line that carries the payload with its correct checksum field.
Sentence(payload) ==
    "$" \o payload \o "*" \o Hex2(XorRange(payload, 1, Len(payload)))

\* Line s with its character at index i replaced by c.
Corrupt(s, i, c) == SubSeq(s, 1, i - 1) \o c \o SubSeq(s, i + 1, Len(s))

Talkers == {"GP", "GN", "GL", "GB"}

\* Sentence bodies (the type and the fields) per sentence type.  The first of
\* each list is a complete sentence, also sent under every talker ID; the last
\* has one field less than its decoder asks for, and one of the others has
\* exactly as many.
GGABodies ==
    << "GGA,123456,4807.038,N,01131.000,E,1,08,0.9,545.4,M,46.9,M,,",
       "GGA,123456,4916.450,S,12311.120,W,2,04,1.25,61.7,M,,M,",
       "GGA,123456,,,,,0,00,,,M,,M,,",
       "GGA,123456,9959.000,N,18100.000,E,1,05,0.9,545.4,M,46.9,M,,",
       "GGA,123456,48.07,N,11.31,E,1,08,0.9,545.4,M,46.9,M,,",
       "GGA,123456,4807.038,N,01131.000,E,1,08,0.9,545.4,M,46.9,M" >>

RMCBodies ==
    << "RMC,123519,A,5231.000,N,01324.000,E,022.4,084.4,230324,003.1,W",
       "RMC,123519,V,3351.000,S,15112.000,E,000.0,,230324,,",
       "RMC,123519,A,,,,,,,,,",
       "RMC,::::::,A,,,,,,,::::::,,",
       "RMC,123519,A,,,,,,,000024,,",
       "RMC,123519,A,5231.000,N,01324.000,E,022.4,084.4,230324,003.1" >>

GSABodies ==
    << "GSA,A,3,04,05,,09,12,,,24,,,,,2.5,1.3,2.1",
       "GSA,A,3,04,05,,09,12,,,24,,,,,1.8,,1.2",
       "GSA,A,3,04,05,,09,12,,,24,,,,,2.5,1.3",
       "GSA,A,3,04,05,,09,12,,,24,,,,,2.5" >>

GSVBodies ==
    << "GSV,3,1,11,03,03,111,00",
       "GSV,3,1,",
       "GSV,3,1" >>

VTGBodies ==
    << "VTG,054.7,T,034.4,M,005.5,N,010.2,K",
       "VTG,,T,,M,,N,",
       "VTG,054.7,T,034.4,M,005.5,N" >>

OtherBodies == << "GLL,4916.45,N,12311.12,W,225444,A" >>

\* Bodies chosen for their numerals: a speed of 0.18 km/h, which is 0.05 m/s,
\* half-way between two tenths; an HDOP of 55.0, whose accuracy with eight
\* satellites is 188.65; an HDOP with an exponent and a hexadecimal altitude.
NumeralBodies ==
    << "VTG,054.7,T,034.4,M,005.5,N,0.18,K",
       "GSA,A,3,04,05,,09,12,,,24,,,,,2.5,55.0,2.1",
       "GGA,123456,4807.038,N,01131.000,E,1,08,1E1,0X1P4,M,46.9,M,," >>

Range(q) == {q[i] : i \in 1..Len(q)}

TypeBodies == <<GGABodies, RMCBodies, GSABodies, GSVBodies, VTGBodies>>

\* Checksum-valid lines: every body under talker GP, and the first body of
\* each type under the other talker IDs.
ValidLines ==
    {Sentence("GP" \o b) : b \in Range(GGABodies) \cup Range(RMCBodies) \cup Range(GSABodies)
                                 \cup Range(GSVBodies) \cup Range(VTGBodies) \cup Range(OtherBodies)
                                 \cup Range(NumeralBodies)}
    \cup {Sentence(t \o TypeBodies[k][1]) : t \in Talkers, k \in 1..Len(TypeBodies)}

\* Lines damaged in transit: one character of a valid line replaced, the
\* checksum field left as it was.
DamagedLines ==
    { Corrupt(Sentence("GP" \o GGABodies[1]), 16, "9"),
      Corrupt(Sentence("GP" \o RMCBodies[1]), 15, "V"),
      Corrupt(Sentence("GP" \o GSVBodies[1]), 13, "2"),
      Corrupt(Sentence("GP" \o GGABodies[1]), 7, "*") }

\* Lines of fewer than 6 characters, and the shortest line that is accepted.
ShortLines == { "$*00", "$GP*1", Sentence("GP") }

\* Lines whose frame is not "$", payload, "*" and two hexadecimal digits: no
\* leading '$', no '*', and a checksum field of no, one and three digits whose
\* value is the payload's XOR (0 for a text twice over, 5 for the other).
MisframedLines ==
    { SubSeq(Sentence("GP" \o GGABodies[1]), 2, Len(Sentence("GP" \o GGABodies[1]))),
      "$GP" \o GSVBodies[1],
      "$GPGSV,3,1,11GPGSV,3,1,11*",
      "$GPGSV,3,1,11GPGSV,3,4,11*5",
      Corrupt(Sentence("GP" \o VTGBodies[1]), Len("GP" \o VTGBodies[1]) + 2, "*0") }

Lines == ValidLines \cup DamagedLines \cup ShortLines \cup MisframedLines

\* The decoders' calls parse_fields(sentence, fields, 20) and the call
\* checksum_valid(nmea_string), tabulated once per line of the input.
FieldsOfLine == [l \in Lines |-> parse_fields(l, MaxFields)]

ChecksumOfLine == [l \in Lines |-> checksum_valid(l)]

Fields(sentence) ==
    IF sentence \in Lines THEN FieldsOfLine[sentence] ELSE parse_fields(sentence, MaxFields)

ChecksumValid(sentence) ==
    IF sentence \in Lines THEN ChecksumOfLine[sentence] ELSE checksum_valid(sentence)

----------------------------------------------------------------------------
(* The record (gps_data_t) and its derived fields.                         *)

\* The static storage of current_gps_data before gps_data_init has run: all
\* bytes zero.
ZeroData ==
    [latitude |-> BZero(1), longitude |-> BZero(1), altitude |-> DInt(0),
     speed |-> DInt(0), course |-> DInt(0),
     satellites_used |-> 0, satellites_visible |-> 0, fix_type |-> 0,
     hdop |-> DInt(0), vdop |-> DInt(0), pdop |-> DInt(0), accuracy |-> DInt(0),
     year |-> 0, month |-> 0, day |-> 0, hour |-> 0, minute |-> 0, second |-> 0,
     valid |-> 0, has_gga |-> 0, has_gsa |-> 0, has_gsv |-> 0, has_vtg |-> 0,
     has_satellites_used |-> 0, has_satellites_visible |-> 0, has_accuracy |-> 0,
     timestamp |-> ""]

\* gps_data_init: every field absent or zero.
gps_data_init ==
    [latitude |-> BNaN, longitude |-> BNaN, altitude |-> NaN,
     speed |-> NaN, course |-> NaN,
     satellites_used |-> 0, satellites_visible |-> 0, fix_type |-> 0,
     hdop |-> NaN, vdop |-> NaN, pdop |-> NaN, accuracy |-> NaN,
     year |-> 0, month |-> 0, day |-> 0, hour |-> 0, minute |-> 0, second |-> 0,
     valid |-> 0, has_gga |-> 0, has_gsa |-> 0, has_gsv |-> 0, has_vtg |-> 0,
     has_satellites_used |-> 0, has_satellites_visible |-> 0, has_accuracy |-> 0,
     timestamp |-> ""]

\* The literals of calculate_accuracy: 4.9, and the multipliers 0.7, 0.9, 1.5.
BaseFactor == B64(Frac(49, 10))

HighFactor == B64(Frac(7, 10))

MediumFactor == B64(Frac(9, 10))

LowFactor == B64(Frac(15, 10))

\* calculate_accuracy counting four satellites as a medium fix.
calculate_accuracy_ge4(hdop, satellites_used) ==
    Only({IF satellites_used >= 8 THEN BMul(base_accuracy, HighFactor)
          ELSE IF satellites_used >= 4 THEN BMul(base_accuracy, MediumFactor)
          ELSE IF satellites_used <= 3 THEN BMul(base_accuracy, LowFactor)
          ELSE base_accuracy : base_accuracy \in {BMul(B64(hdop), BaseFactor)}})

\* base_accuracy = hdop * 4.9, times the multiplier of the satellite count:
\* the double returned, with its bits.
calculate_accuracy(hdop, satellites_used) ==
    Only({IF satellites_used >= 8 THEN BMul(base_accuracy, HighFactor)
          ELSE IF satellites_used >= 5 THEN BMul(base_accuracy, MediumFactor)
          ELSE IF satellites_used <= 3 THEN BMul(base_accuracy, LowFactor)
          ELSE base_accuracy : base_accuracy \in {BMul(B64(hdop), BaseFactor)}})

update_accuracy(g) ==
    IF ~isnan(g.hdop) /\ g.has_satellites_used # 0
    THEN [g EXCEPT !.accuracy =
                       Tenths(BMul(calculate_accuracy(g.hdop, g.satellites_used), Ten)),
                   !.has_accuracy = 1]
    ELSE [g EXCEPT !.accuracy = NaN, !.has_accuracy = 0]

\* sizeof(gps_data->timestamp)
TimestampSize == 25

\* update_timestamp: text is what snprintf is asked to write with
\* "%04d-%02d-%02dT%02d:%02d:%02dZ"; snprintf returns Len(text), and the
\* buffer is emptied when that does not fit.
update_timestamp(g) ==
    IF g.year > 0 /\ g.month > 0 /\ g.day > 0
    THEN LET text == FmtD(g.year, 4) \o "-" \o FmtD(g.month, 2) \o "-" \o FmtD(g.day, 2)
                     \o "T" \o FmtD(g.hour, 2) \o ":" \o FmtD(g.minute, 2) \o ":"
                     \o FmtD(g.second, 2) \o "Z"
         IN  [g EXCEPT !.timestamp =
                  IF Len(text) <= 0 \/ Len(text) >= TimestampSize THEN "" ELSE text]
    ELSE [g EXCEPT !.timestamp = ""]

\* The keys of the dictionary, the time shown whatever the date.
DictKeys_time(g) ==
    {"valid"}
    \cup (IF g.latitude.kind # "nan" THEN {"latitude"} ELSE {})
    \cup (IF g.longitude.kind # "nan" THEN {"longitude"} ELSE {})
    \cup (IF g.has_gga # 0 /\ ~isnan(g.altitude) THEN {"altitude"} ELSE {})
    \cup (IF ~isnan(g.speed) THEN {"speed"} ELSE {})
    \cup (IF ~isnan(g.course) THEN {"course"} ELSE {})
    \cup (IF g.has_satellites_used # 0 THEN {"satellites_used"} ELSE {})
    \cup (IF g.has_satellites_visible # 0 THEN {"satellites_visible"} ELSE {})
    \cup (IF g.has_gga # 0 THEN {"fix_type"} ELSE {})
    \cup (IF g.has_gsa # 0 /\ ~isnan(g.hdop) THEN {"hdop"} ELSE {})
    \cup (IF g.has_gsa # 0 /\ ~isnan(g.vdop) THEN {"vdop"} ELSE {})
    \cup (IF g.has_gsa # 0 /\ ~isnan(g.pdop) THEN {"pdop"} ELSE {})
    \cup (IF g.has_accuracy # 0 /\ ~isnan(g.accuracy) THEN {"accuracy"} ELSE {})
    \cup (IF g.year > 0 /\ g.month > 0 /\ g.day > 0 THEN {"date"} ELSE {})
    \cup {"time"}
    \cup (IF g.timestamp # "" THEN {"timestamp"} ELSE {})

\* The keys of the dictionary create_gps_dict_from_data builds.
DictKeys(g) ==
    {"valid"}
    \cup (IF g.latitude.kind # "nan" THEN {"latitude"} ELSE {})
    \cup (IF g.longitude.kind # "nan" THEN {"longitude"} ELSE {})
    \cup (IF g.has_gga # 0 /\ ~isnan(g.altitude) THEN {"altitude"} ELSE {})
    \cup (IF ~isnan(g.speed) THEN {"speed"} ELSE {})
    \cup (IF ~isnan(g.course) THEN {"course"} ELSE {})
    \cup (IF g.has_satellites_used # 0 THEN {"satellites_used"} ELSE {})
    \cup (IF g.has_satellites_visible # 0 THEN {"satellites_visible"} ELSE {})
    \cup (IF g.has_gga # 0 THEN {"fix_type"} ELSE {})
    \cup (IF g.has_gsa # 0 /\ ~isnan(g.hdop) THEN {"hdop"} ELSE {})
    \cup (IF g.has_gsa # 0 /\ ~isnan(g.vdop) THEN {"vdop"} ELSE {})
    \cup (IF g.has_gsa # 0 /\ ~isnan(g.pdop) THEN {"pdop"} ELSE {})
    \cup (IF g.has_accuracy # 0 /\ ~isnan(g.accuracy) THEN {"accuracy"} ELSE {})
    \cup (IF g.year > 0 /\ g.month > 0 /\ g.day > 0 THEN {"date"} ELSE {})
    \cup (IF g.year > 0 THEN {"time"} ELSE {})
    \cup (IF g.timestamp # "" THEN {"timestamp"} ELSE {})

DictValue(g, k) ==
    CASE k = "valid" -> g.valid # 0
      [] k = "latitude" -> g.latitude
      [] k = "longitude" -> g.longitude
      [] k = "altitude" -> g.altitude
      [] k = "speed" -> Round1(g.speed)
      [] k = "course" -> Round1(g.course)
      [] k = "satellites_used" -> g.satellites_used
      [] k = "satellites_visible" -> g.satellites_visible
      [] k = "fix_type" -> g.fix_type
      [] k = "hdop" -> Round1(g.hdop)
      [] k = "vdop" -> Round1(g.vdop)
      [] k = "pdop" -> Round1(g.pdop)
      [] k = "accuracy" -> g.accuracy
      [] k = "date" -> <<g.day, g.month, g.year>>
      [] k = "time" -> <<g.hour, g.minute, g.second>>
      [] k = "timestamp" -> g.timestamp

create_gps_dict_from_data(g) == [k \in DictKeys(g) |-> DictValue(g, k)]

----------------------------------------------------------------------------
(* The sentence decoders.  Each takes the sentence and the record and      *)
(* yields the record after the call.                                       *)

\* (s[i] - '0') * 10 + (s[i+1] - '0'), as an int.
TwoDigits(s, i) ==
    (Ord(CharAt(s, i)) - Ord("0")) * 10 + (Ord(CharAt(s, i + 1)) - Ord("0"))

\* The time of day, written by parse_gga and parse_rmc alike from fields[1].
SetTime(g, field) ==
    IF Len(field) >= 6
    THEN [g EXCEPT !.hour = uint8(TwoDigits(field, 1)),
                   !.minute = uint8(TwoDigits(field, 3)),
                   !.second = uint8(TwoDigits(field, 5))]
    ELSE g

\* fields[2], fields[3]: the latitude.
GgaLatitude(g, fields) ==
    IF Len(fields[2]) > 0 /\ Len(fields[3]) > 0
    THEN [g EXCEPT !.latitude = parse_coordinate(fields[2], CharAt(fields[3], 1))]
    ELSE g

\* fields[4], fields[5]: the longitude.
GgaLongitude(g, fields) ==
    IF Len(fields[4]) > 0 /\ Len(fields[5]) > 0
    THEN [g EXCEPT !.longitude = parse_coordinate(fields[4], CharAt(fields[5], 1))]
    ELSE g

\* fields[6]: the fix quality.
GgaFixType(g, fields) ==
    IF Len(fields[6]) > 0 THEN [g EXCEPT !.fix_type = uint8(atoi(fields[6]))] ELSE g

\* fields[7]: the number of satellites used.
GgaSatellitesUsed(g, fields) ==
    IF Len(fields[7]) > 0
    THEN [g EXCEPT !.satellites_used = uint8(atoi(fields[7])), !.has_satellites_used = 1]
    ELSE g

\* fields[8]: HDOP, stored as read.
GgaHdop(g, fields) ==
    IF Len(fields[8]) > 0 THEN [g EXCEPT !.hdop = atof(fields[8])] ELSE g

\* fields[9]: the altitude.
GgaAltitude(g, fields) ==
    IF Len(fields[9]) > 0 THEN [g EXCEPT !.altitude = Round1(atof(fields[9]))] ELSE g

\* The statements of parse_gga after the field count test, in their order,
\* but for the last two.
GgaFields(g, fields) ==
    [GgaAltitude(GgaHdop(GgaSatellitesUsed(GgaFixType(GgaLongitude(GgaLatitude(
         SetTime(g, fields[1]), fields), fields), fields), fields), fields), fields)
     EXCEPT !.has_gga = 1]

\* parse_gga leaving the timestamp as it was.
GgaDecode_stale(p, gps_data) ==
    IF p.n < 14 THEN gps_data
    ELSE update_accuracy(GgaFields(gps_data, p.f))

\* parse_gga after its call of parse_fields, which yielded p.
GgaDecode(p, gps_data) ==
    IF p.n < 14 THEN gps_data
    ELSE update_timestamp(update_accuracy(GgaFields(gps_data, p.f)))

parse_gga(sentence, gps_data) == GgaDecode(Fields(sentence), gps_data)

\* The literal 0.514444: knots to metres per second.
KnotsToMs == B64(Frac(514444, 1000000))

\* fields[2] setting valid on status A and never clearing it.
RmcStatus_sticky(g, fields) ==
    IF CharAt(fields[2], 1) = "A" THEN [g EXCEPT !.valid = 1] ELSE g

\* fields[2]: the status, A for a valid fix.
RmcStatus(g, fields) ==
    [g EXCEPT !.valid = IF CharAt(fields[2], 1) = "A" THEN 1 ELSE 0]

\* fields[3], fields[4] written whatever the record holds.
RmcLatitude_overwrite(g, fields) ==
    IF Len(fields[3]) > 0 /\ Len(fields[4]) > 0
    THEN [g EXCEPT !.latitude = parse_coordinate(fields[3], CharAt(fields[4], 1))]
    ELSE g

\* fields[3], fields[4]: the latitude, unless a GGA has supplied one.
RmcLatitude(g, fields) ==
    IF Len(fields[3]) > 0 /\ Len(fields[4]) > 0 /\ (g.latitude.kind = "nan" \/ g.has_gga = 0)
    THEN [g EXCEPT !.latitude = parse_coordinate(fields[3], CharAt(fields[4], 1))]
    ELSE g

\* fields[5], fields[6] written whatever the record holds.
RmcLongitude_overwrite(g, fields) ==
    IF Len(fields[5]) > 0 /\ Len(fields[6]) > 0
    THEN [g EXCEPT !.longitude = parse_coordinate(fields[5], CharAt(fields[6], 1))]
    ELSE g

\* fields[5], fields[6]: the longitude, unless a GGA has supplied one.
RmcLongitude(g, fields) ==
    IF Len(fields[5]) > 0 /\ Len(fields[6]) > 0 /\ (g.longitude.kind = "nan" \/ g.has_gga = 0)
    THEN [g EXCEPT !.longitude = parse_coordinate(fields[5], CharAt(fields[6], 1))]
    ELSE g

\* fields[7]: the speed in knots.
RmcSpeed(g, fields) ==
    IF Len(fields[7]) > 0
    THEN [g EXCEPT !.speed = Tenths(BMul(BMul(B64(atof(fields[7])), KnotsToMs), Ten))]
    ELSE g

\* fields[8]: the course.
RmcCourse(g, fields) ==
    IF Len(fields[8]) > 0 THEN [g EXCEPT !.course = Round1(atof(fields[8]))] ELSE g

\* fields[9]: the date, DDMMYY.
RmcDate(g, fields) ==
    IF Len(fields[9]) >= 6
    THEN [g EXCEPT !.day = uint8(TwoDigits(fields[9], 1)),
                   !.month = uint8(TwoDigits(fields[9], 3)),
                   !.year = uint16(2000 + TwoDigits(fields[9], 5))]
    ELSE g

\* The statements of parse_rmc after the field count test, in their order,
\* but for the last.
RmcFields(g, fields) ==
    RmcDate(RmcCourse(RmcSpeed(RmcLongitude(RmcLatitude(RmcStatus(
        SetTime(g, fields[1]), fields), fields), fields), fields), fields), fields)

\* parse_rmc after its call of parse_fields, which yielded p.
RmcDecode(p, gps_data) ==
    IF p.n < 12 THEN gps_data
    ELSE update_timestamp(RmcFields(gps_data, p.f))

parse_rmc(sentence, gps_data) == RmcDecode(Fields(sentence), gps_data)

\* The statements of parse_gsa after the field count test, in their order,
\* but for the last: fields[15] is PDOP, fields[16] HDOP and fields[17] VDOP.
GsaFields(g, fields) ==
    [g EXCEPT !.pdop = IF Len(fields[15]) > 0 THEN Round1(atof(fields[15])) ELSE @,
              !.hdop = IF Len(fields[16]) > 0 THEN Round1(atof(fields[16])) ELSE @,
              !.vdop = IF Len(fields[17]) > 0 THEN Round1(atof(fields[17])) ELSE @,
              !.has_gsa = 1]

\* parse_gsa asking for one field less.
GsaDecode_16(p, gps_data) ==
    IF p.n < 16 THEN gps_data
    ELSE update_accuracy(GsaFields(gps_data, p.f))

\* parse_gsa after its call of parse_fields, which yielded p.
GsaDecode(p, gps_data) ==
    IF p.n < 17 THEN gps_data
    ELSE update_accuracy(GsaFields(gps_data, p.f))

parse_gsa(sentence, gps_data) == GsaDecode(Fields(sentence), gps_data)

\* parse_gsv taking an empty count for no satellites in view.
GsvDecode_clear(p, gps_data) ==
    IF p.n < 4 THEN gps_data
    ELSE IF Len(p.f[3]) > 0
         THEN [gps_data EXCEPT !.satellites_visible = uint8(atoi(p.f[3])),
                               !.has_satellites_visible = 1,
                               !.has_gsv = 1]
         ELSE [gps_data EXCEPT !.has_gsv = 0]

\* parse_gsv adding the count to the one the record holds.
GsvDecode_add(p, gps_data) ==
    IF p.n < 4 THEN gps_data
    ELSE IF Len(p.f[3]) > 0
         THEN [gps_data EXCEPT
                   !.satellites_visible = uint8(gps_data.satellites_visible + atoi(p.f[3])),
                   !.has_satellites_visible = 1,
                   !.has_gsv = 1]
         ELSE gps_data

\* parse_gsv after its call of parse_fields, which yielded p.
GsvDecode(p, gps_data) ==
    IF p.n < 4 THEN gps_data
    ELSE IF Len(p.f[3]) > 0
         THEN [gps_data EXCEPT !.satellites_visible = uint8(atoi(p.f[3])),
                               !.has_satellites_visible = 1,
                               !.has_gsv = 1]
         ELSE gps_data

parse_gsv(sentence, gps_data) == GsvDecode(Fields(sentence), gps_data)

\* fields[1]: the course, if the record has none.
VtgCourse(g, fields) ==
    IF Len(fields[1]) > 0 /\ isnan(g.course)
    THEN [g EXCEPT !.course = Round1(atof(fields[1]))]
    ELSE g

\* The literal 3.6: km/h in one m/s.
KmhPerMs == B64(Frac(36, 10))

\* fields[7] written whatever speed the record holds.
VtgSpeed_always(g, fields) ==
    IF Len(fields[7]) > 0
    THEN [g EXCEPT !.speed = Tenths(BMul(BDiv(B64(atof(fields[7])), KmhPerMs), Ten))]
    ELSE g

\* speed < 0.1.  0.1 is the double nearest to 1/10, and a fraction of the
\* model other than 1/10 is farther from 1/10 than that double is, so the
\* doubles are in the order of the fractions; false for NaN, as in C.
SpeedBelowTenth(speed) ==
    /\ ~isnan(speed)
    /\ IF isinf(speed) THEN speed = Inf(-1) ELSE speed[1] = 0 \/ 10 * speed[1] < speed[2]

\* fields[7]: the speed in km/h, if the record has none or next to none.
VtgSpeed(g, fields) ==
    IF Len(fields[7]) > 0 /\ (isnan(g.speed) \/ SpeedBelowTenth(g.speed))
    THEN [g EXCEPT !.speed = Tenths(BMul(BDiv(B64(atof(fields[7])), KmhPerMs), Ten))]
    ELSE g

\* parse_vtg after its call of parse_fields, which yielded p.
VtgDecode(p, gps_data) ==
    IF p.n < 8 THEN gps_data
    ELSE [VtgSpeed(VtgCourse(gps_data, p.f), p.f) EXCEPT !.has_vtg = 1]

parse_vtg(sentence, gps_data) == VtgDecode(Fields(sentence), gps_data)

----------------------------------------------------------------------------
(* The module's functions.  Each yields [data, initialized, ret]: the two  *)
(* statics after the call and the value returned.                          *)

None == [kind |-> "None"]

Dict(g) == [kind |-> "dict", value |-> create_gps_dict_from_data(g)]

\* Dispatch with a GGA branch that runs the RMC decoder as well.
Dispatch_both(nmea_string, g) ==
    IF StartsWith(nmea_string, "$GPRMC") \/ StartsWith(nmea_string, "$GNRMC")
    THEN parse_rmc(nmea_string, g)
    ELSE IF StartsWith(nmea_string, "$GPGGA") \/ StartsWith(nmea_string, "$GNGGA")
    THEN parse_rmc(nmea_string, parse_gga(nmea_string, g))
    ELSE IF StartsWith(nmea_string, "$GPGSA") \/ StartsWith(nmea_string, "$GNGSA")
    THEN parse_gsa(nmea_string, g)
    ELSE IF StartsWith(nmea_string, "$GPGSV") \/ StartsWith(nmea_string, "$GLGSV")
            \/ StartsWith(nmea_string, "$GNGSV") \/ StartsWith(nmea_string, "$GBGSV")
    THEN parse_gsv(nmea_string, g)
    ELSE IF StartsWith(nmea_string, "$GPVTG") \/ StartsWith(nmea_string, "$GNVTG")
    THEN parse_vtg(nmea_string, g)
    ELSE g

\* The decoder parse_nmea_string picks for the sentence, applied to g.
Dispatch(nmea_string, g) ==
    IF StartsWith(nmea_string, "$GPRMC") \/ StartsWith(nmea_string, "$GNRMC")
    THEN parse_rmc(nmea_string, g)
    ELSE IF StartsWith(nmea_string, "$GPGGA") \/ StartsWith(nmea_string, "$GNGGA")
    THEN parse_gga(nmea_string, g)
    ELSE IF StartsWith(nmea_string, "$GPGSA") \/ StartsWith(nmea_string, "$GNGSA")
    THEN parse_gsa(nmea_string, g)
    ELSE IF StartsWith(nmea_string, "$GPGSV") \/ StartsWith(nmea_string, "$GLGSV")
            \/ StartsWith(nmea_string, "$GNGSV") \/ StartsWith(nmea_string, "$GBGSV")
    THEN parse_gsv(nmea_string, g)
    ELSE IF StartsWith(nmea_string, "$GPVTG") \/ StartsWith(nmea_string, "$GNVTG")
    THEN parse_vtg(nmea_string, g)
    ELSE g

parse_nmea_string(nmea_string, data, initialized) ==
    IF Len(nmea_string) < 6
    THEN [data |-> data, initialized |-> initialized, ret |-> None]
    ELSE IF ~ChecksumValid(nmea_string)
    THEN [data |-> data, initialized |-> initialized, ret |-> None]
    ELSE Only({[data |-> g, initialized |-> 1, ret |-> Dict(g)] :
                  g \in {Dispatch(nmea_string, IF initialized = 0 THEN gps_data_init ELSE data)}})

\* reset_gps_data keeping what the record knows of a position sentence.
reset_gps_data_keep(data, initialized) ==
    [data |-> [gps_data_init EXCEPT !.has_gga = data.has_gga], initialized |-> 1,
     ret |-> None]

reset_gps_data(data, initialized) ==
    [data |-> gps_data_init, initialized |-> 1, ret |-> None]

\* get_current without its test of gps_data_initialized.
get_current_live(data, initialized) ==
    [data |-> data, initialized |-> initialized, ret |-> Dict(data)]

get_current(data, initialized) ==
    [data |-> data, initialized |-> initialized,
     ret |-> IF initialized = 0
             THEN [kind |-> "dict", value |-> [k \in {"valid"} |-> FALSE]]
             ELSE Dict(data)]

\* calculate_distance without its test of gps_data_initialized.
DistanceFrom_untested(lat1, lon1, lat2, lon2, initialized) ==
    IF lat1.kind = "nan" \/ lon1.kind = "nan" THEN None
    ELSE IF BLt(lat1, OfInt(-90)) \/ BLt(OfInt(90), lat1)
            \/ BLt(lat2, OfInt(-90)) \/ BLt(OfInt(90), lat2)
    THEN [kind |-> "ValueError", value |-> "latitude"]
    ELSE IF BLt(lon1, OfInt(-180)) \/ BLt(OfInt(180), lon1)
            \/ BLt(lon2, OfInt(-180)) \/ BLt(OfInt(180), lon2)
    THEN [kind |-> "ValueError", value |-> "longitude"]
    ELSE [kind |-> "float", value |-> <<lat1, lon1, lat2, lon2>>]

\* calculate_distance with one argument, a list [lat2, lon2] of numbers.  The
\* haversine value itself is kept symbolic: the rounded distance from
\* (lat1, lon1) to (lat2, lon2).
DistanceFrom(lat1, lon1, lat2, lon2, initialized) ==
    IF initialized = 0 \/ lat1.kind = "nan" \/ lon1.kind = "nan" THEN None
    ELSE IF BLt(lat1, OfInt(-90)) \/ BLt(OfInt(90), lat1)
            \/ BLt(lat2, OfInt(-90)) \/ BLt(OfInt(90), lat2)
    THEN [kind |-> "ValueError", value |-> "latitude"]
    ELSE IF BLt(lon1, OfInt(-180)) \/ BLt(OfInt(180), lon1)
            \/ BLt(lon2, OfInt(-180)) \/ BLt(OfInt(180), lon2)
    THEN [kind |-> "ValueError", value |-> "longitude"]
    ELSE [kind |-> "float", value |-> <<lat1, lon1, lat2, lon2>>]

calculate_distance(target, data, initialized) ==
    [data |-> data, initialized |-> initialized,
     ret |-> DistanceFrom(data.latitude, data.longitude, target[1], target[2], initialized)]

----------------------------------------------------------------------------
(* The state machine: one action per function of the module.               *)

\* The number of API calls a behaviour makes.
MaxCalls == 3

NoCoord == [done |-> FALSE, value |-> BNaN]

NoTokens == [done |-> FALSE, n |-> 0, f |-> NoFields(MaxFields)]

Init ==
    /\ current_gps_data = ZeroData
    /\ gps_data_initialized = 0
    /\ call = [op |-> "load", arg |-> ""]
    /\ ret = None
    /\ ncalls = 0
    /\ history = <<>>
    /\ coord_in = <<"", "">>
    /\ coord_out = NoCoord
    /\ fields_in = <<>>
    /\ fields_out = NoTokens

\* One call of the API: out is what the function yields on the current statics.
Call(op, arg, out) ==
    /\ ncalls' = ncalls + 1
    /\ current_gps_data' = out.data
    /\ gps_data_initialized' = out.initialized
    /\ call' = [op |-> op, arg |-> arg]
    /\ ret' = out.ret
    /\ UNCHANGED <<coord_in, coord_out, fields_in, fields_out>>

Parse(line) ==
    /\ ncalls < MaxCalls
    /\ \E out \in {parse_nmea_string(line, current_gps_data, gps_data_initialized)} :
           Call("parse", line, out)
    /\ UNCHANGED history

Reset ==
    /\ ncalls < MaxCalls
    /\ \E out \in {reset_gps_data(current_gps_data, gps_data_initialized)} :
           Call("reset", "", out)
    /\ UNCHANGED history

Current ==
    /\ ncalls < MaxCalls
    /\ \E out \in {get_current(current_gps_data, gps_data_initialized)} :
           Call("current", "", out)
    /\ UNCHANGED history

Distance(target) ==
    /\ ncalls < MaxCalls
    /\ \E out \in {calculate_distance(target, current_gps_data, gps_data_initialized)} :
           Call("distance", "", out)
    /\ UNCHANGED history

Next ==
    \/ \E line \in Lines : Parse(line)
    \/ Reset
    \/ Current
    \/ \E target \in {<<OfInt(0), OfInt(0)>>, <<OfInt(91), OfInt(0)>>} : Distance(target)

Spec == Init /\ [][Next]_vars

----------------------------------------------------------------------------
(* The record as the API shows it: before the first accepted line or reset *)
(* the statics are untouched and every function answers as for a fresh     *)
(* record (parse_nmea_string runs gps_data_init first, get_current and     *)
(* calculate_distance test gps_data_initialized).                          *)

View(data, initialized) == IF initialized = 0 THEN gps_data_init ELSE data

FixRecord == View(current_gps_data, gps_data_initialized)

\* The number a double stands for: a zero without its sign.
Value(x) == IF x[1] = 0 /\ x[2] # 0 THEN DInt(0) ELSE x

\* Exact arithmetic of fractions, to state what a result should be.
FracAdd(x, y) == IF isnan(x) \/ isnan(y) THEN NaN
                 ELSE IF isinf(x) THEN (IF isinf(y) /\ y # x THEN NaN ELSE x)
                 ELSE IF isinf(y) THEN y
                 ELSE Frac(x[1] * y[2] + y[1] * x[2], x[2] * y[2])

FracMul(x, y) == IF isnan(x) \/ isnan(y) THEN NaN
                 ELSE IF isinf(x) \/ isinf(y)
                      THEN (IF DSign(x) * DSign(y) = 0 THEN NaN ELSE Inf(DSign(x) * DSign(y)))
                 ELSE LET g1 == Gcd(Abs(x[1]), y[2])
                          g2 == Gcd(Abs(y[1]), x[2])
                      IN  Frac((x[1] \div g1) * (y[1] \div g2), (x[2] \div g2) * (y[2] \div g1))

FracDiv(x, y) == IF isnan(x) \/ isnan(y) THEN NaN
                 ELSE IF isinf(x)
                      THEN (IF isinf(y) THEN NaN ELSE Inf(IF y[1] < 0 THEN -x[1] ELSE x[1]))
                 ELSE IF isinf(y) THEN DInt(0)
                 ELSE IF y[1] = 0 THEN (IF x[1] = 0 THEN NaN ELSE Inf(DSign(x)))
                 ELSE FracMul(x, <<y[2], y[1]>>)

DNeg(x) == IF isnan(x) THEN NaN ELSE <<-x[1], x[2]>>

\* x < y; false when either is NaN, as in C.
DLt(x, y) == /\ ~isnan(x)
             /\ ~isnan(y)
             /\ IF isinf(x) \/ isinf(y)
                THEN (x = Inf(-1) /\ y # Inf(-1)) \/ (y = Inf(1) /\ x # Inf(1))
                ELSE Value(x)[1] * Value(y)[2] < Value(y)[1] * Value(x)[2]

DGt(x, y) == DLt(y, x)

\* A coordinate is absent: it is not a number.
Absent(coordinate) == coordinate.kind = "nan"

\* The coordinate b is the fraction x as a double computes it: the double
\* nearest to x or one of the two doubles next to that one.
IsDoubleOf(b, x) ==
    LET c == B64(x)
    IN  \/ b = c
        \/ b.kind = "zero" /\ c.kind = "zero"
        \/ /\ b.kind = "num"
           /\ c.kind = "num"
           /\ b.sign = c.sign
           /\ \/ b.e = c.e /\ MSub(b.m, c.m) \in {<<0, 0, 0, 1>>, <<-1, Radix - 1, Radix - 1, Radix - 1>>}
              \/ /\ b.e = c.e + 1
                 /\ b.m = <<1024, 0, 0, 0>>
                 /\ c.m = <<2047, Radix - 1, Radix - 1, Radix - 1>>
              \/ /\ c.e = b.e + 1
                 /\ c.m = <<1024, 0, 0, 0>>
                 /\ b.m = <<2047, Radix - 1, Radix - 1, Radix - 1>>

----------------------------------------------------------------------------
(* The coordinate codec on its own: parse_coordinate applied to every      *)
(* string of a small alphabet.                                             *)

\* The longest raw coordinate string tried.
MaxCoordLen == 8

RECURSIVE StringsUpTo(_)
StringsUpTo(n) ==
    IF n = 0 THEN {""}
    ELSE LET shorter == StringsUpTo(n - 1)
         IN  shorter \cup {s \o c : s \in shorter, c \in {"1", "8", "."}}

\* Raw strings whose leading characters atof reads as not-a-number, and one
\* that only begins with N; strings whose degrees or minutes are an infinity,
\* a number with an exponent or a hexadecimal number; strings whose degrees
\* and minutes are infinities, zeros with a sign, or too small for a double;
\* strings with more than 15 characters behind the degrees.
OddCoords == {"NAN00.00", "-NAN00.0", "-NAN0.00", "1NAN0.00", "N1234.00",
              "INF00.00", "-INF0.00", "1E100.00", "0X100.00", "4807.1E1", "480X.8P1",
              "INF-1.E999", "INF11.E999", "-INF11.E999", "-INF-1.E999", "1811.E999",
              "-0-0.00", "-000.00", "0-0.0000", "-0X0.0000", "-1-1.E-999",
              "181.E0000000000001", "110X.8P00000000001"}

InitCodec ==
    /\ current_gps_data = ZeroData
    /\ gps_data_initialized = 0
    /\ call = [op |-> "load", arg |-> ""]
    /\ ret = None
    /\ ncalls = 0
    /\ history = <<>>
    /\ coord_in \in (StringsUpTo(MaxCoordLen) \cup OddCoords) \X {"N", "S", "E", "W", ""}
    /\ coord_out = NoCoord
    /\ fields_in = <<>>
    /\ fields_out = NoTokens

DecodeCoordinate ==
    /\ ~coord_out.done
    /\ coord_out' = [done |-> TRUE, value |-> parse_coordinate(coord_in[1], coord_in[2])]
    /\ UNCHANGED <<current_gps_data, gps_data_initialized, call, ret, ncalls, history,
                   coord_in, fields_in, fields_out>>

NextCodec == DecodeCoordinate

SpecCodec == InitCodec /\ [][NextCodec]_vars

----------------------------------------------------------------------------
(* The tokenizer on its own: parse_fields applied to sentences whose       *)
(* fields have every length up to a little over the room of a field.       *)

\* The longest field tried.
MaxFieldLen == 17

\* The largest number of fields that follow the sentence identifier.
MaxTokens == 3

\* The identifier that begins the sentences tried.
TokenId == "$GPXXX"

\* The fields q[i..], each behind a comma.
RECURSIVE CommaJoin(_, _)
CommaJoin(q, i) == IF i > Len(q) THEN "" ELSE "," \o q[i] \o CommaJoin(q, i + 1)

InitFields ==
    /\ current_gps_data = ZeroData
    /\ gps_data_initialized = 0
    /\ call = [op |-> "load", arg |-> ""]
    /\ ret = None
    /\ ncalls = 0
    /\ history = <<>>
    /\ coord_in = <<"", "">>
    /\ coord_out = NoCoord
    /\ fields_in \in UNION {[1..k -> {SubSeq("1234567.9012345678901234", 1, n) :
                                         n \in 0..MaxFieldLen}] : k \in 1..MaxTokens}
    /\ fields_out = NoTokens

\* The result of parse_fields with the flag that it has run.
Tokens(p) == [done |-> TRUE, n |-> p.n, f |-> p.f]

Tokenize ==
    /\ ~fields_out.done
    /\ fields_out' = Tokens(parse_fields(TokenId \o CommaJoin(fields_in, 1) \o "*00", MaxFields))
    /\ UNCHANGED <<current_gps_data, gps_data_initialized, call, ret, ncalls, history,
                   coord_in, coord_out, fields_in>>

NextFields == Tokenize

SpecFields == InitFields /\ [][NextFields]_vars

----------------------------------------------------------------------------
(* Properties.  Helpers that read a line the way the NMEA grammar does.    *)

LineOf(talker, body) == Sentence(talker \o body)

TalkerOf(line) == SubSeq(line, 2, 3)

TypeOf(line) == SubSeq(line, 4, 6)

\* The number of comma-separated fields in front of the checksum delimiter,
\* the sentence identifier counted as the first.
FieldCount(line) ==
    1 + Cardinality({i \in 1..(strchr(line, 1, "*") - 1) : CharAt(line, i) = ","})

MinFields(type) ==
    CASE type = "GGA" -> 14
      [] type = "RMC" -> 12
      [] type = "GSA" -> 17
      [] type = "GSV" -> 4
      [] type = "VTG" -> 8

KnownTypes == {"GGA", "RMC", "GSA", "GSV", "VTG"}

\* The talker IDs under which the dispatcher knows a sentence type.
Dispatched(line) ==
    \/ TypeOf(line) \in KnownTypes /\ TalkerOf(line) \in {"GP", "GN"}
    \/ TypeOf(line) = "GSV" /\ TalkerOf(line) \in {"GL", "GB"}

\* The payload's XOR is not the value of the two digits after the first '*'.
ChecksumMismatch(line) ==
    LET star == strchr(line, 1, "*")
    IN  /\ CharAt(line, 1) = "$"
        /\ star # 0
        /\ Hex2(XorRange(line, 2, star - 1)) # CharAt(line, star + 1) \o CharAt(line, star + 2)

\* The last call was parse(line).
Parsed(line) == call.op = "parse" /\ call.arg = line

IsParse == call.op = "parse"

\* C1: a line whose checksum does not match its payload - in particular a
\* valid sentence with one payload character changed and the checksum field
\* left as it was - and a line of fewer than 6 characters leave every field
\* and flag of the record unchanged, and parse returns None.
C1_DamagedLineRejected ==
    [][(IsParse' /\ (\/ call'.arg \in DamagedLines
                     \/ Len(call'.arg) < 6
                     \/ ChecksumMismatch(call'.arg)))
       => (FixRecord' = FixRecord /\ ret'.kind = "None")]_vars

\* A checksum-valid line that no decoder accepts: its type is unknown, or it
\* has fewer fields than its decoder asks for.
NoDecoderAccepts(line) ==
    /\ line \in ValidLines \cup ShortLines
    /\ Len(line) >= 6
    /\ \/ TypeOf(line) \notin KnownTypes
       \/ Dispatched(line) /\ FieldCount(line) < MinFields(TypeOf(line))

\* C2: decoding a checksum-valid line that no decoder accepts changes no field
\* and no flag of the record and returns the snapshot of the unchanged record.
C2_NoDecoderNoChange ==
    [][(IsParse' /\ NoDecoderAccepts(call'.arg))
       => /\ FixRecord' = FixRecord
          /\ ret'.kind = "dict"
          /\ ret'.value = create_gps_dict_from_data(FixRecord)]_vars

\* A GSA of 16 fields was decoded on a record that holds a position fix.
C2_Witness ==
    /\ Parsed(LineOf("GP", GSABodies[4]))
    /\ NoDecoderAccepts(call.arg)
    /\ FieldCount(call.arg) = 16
    /\ FixRecord.has_gga = 1
    /\ ret.kind = "dict"

----------------------------------------------------------------------------
(* The fallback scenario: from program start an RMC with coordinates, then *)
(* a GGA with coordinates, then RMCs again.  history holds the lines fed.  *)

\* The number of lines the scenario feeds.
MaxFallback == 4

FallbackRmc ==
    {LineOf("GP", RMCBodies[1]), LineOf("GP", RMCBodies[2]), LineOf("GN", RMCBodies[1])}

Feed(line) ==
    /\ \E out \in {parse_nmea_string(line, current_gps_data, gps_data_initialized)} :
           Call("parse", line, out)
    /\ history' = Append(history, line)

FeedRmcFirst == history = <<>> /\ \E line \in FallbackRmc : Feed(line)

FeedGga ==
    /\ Len(history) = 1
    /\ \E line \in {LineOf("GP", GGABodies[1]), LineOf("GP", GGABodies[2]),
                     LineOf("GN", GGABodies[1])} : Feed(line)

FeedRmcAgain ==
    /\ Len(history) >= 2
    /\ Len(history) < MaxFallback
    /\ \E line \in FallbackRmc : Feed(line)

NextFallback == FeedRmcFirst \/ FeedGga \/ FeedRmcAgain

SpecFallback == Init /\ [][NextFallback]_vars

\* The latitude and longitude a line carries in its fields k .. k+3.
CoordsOf(line, k) ==
    LET f == Fields(line).f
    IN  <<parse_coordinate(f[k], CharAt(f[k + 1], 1)),
          parse_coordinate(f[k + 2], CharAt(f[k + 3], 1))>>

\* C3: from a fresh record, after an RMC with coordinates A, a GGA with
\* well-formed coordinates B and any number of further RMCs with coordinates C
\* different from B, latitude and longitude are B, never C.
C3_FallbackPrecedence ==
    Len(history) >= 2 =>
        /\ <<FixRecord.latitude, FixRecord.longitude>> = CoordsOf(history[2], 2)
        /\ \A i \in 3..Len(history) :
               /\ FixRecord.latitude # CoordsOf(history[i], 3)[1]
               /\ FixRecord.longitude # CoordsOf(history[i], 3)[2]

\* RMC, GGA, then an RMC with other coordinates: the record holds the GGA's.
C3_Witness ==
    /\ Len(history) >= 3
    /\ history[2] = LineOf("GP", GGABodies[2])
    /\ Parsed(LineOf("GP", RMCBodies[2]))
    /\ IsDoubleOf(FixRecord.latitude, DNeg(FracAdd(DInt(49), FracDiv(Frac(1645, 100), DInt(60)))))
    /\ IsDoubleOf(CoordsOf(call.arg, 3)[1], DNeg(FracAdd(DInt(33), FracDiv(DInt(51), DInt(60)))))

----------------------------------------------------------------------------

\* C4: a presence flag that is set stays set over every call but reset.
C4_FlagsMonotonic ==
    [][call'.op # "reset" =>
          /\ FixRecord.has_gga = 1 => FixRecord'.has_gga = 1
          /\ FixRecord.has_gsa = 1 => FixRecord'.has_gsa = 1
          /\ FixRecord.has_gsv = 1 => FixRecord'.has_gsv = 1
          /\ FixRecord.has_vtg = 1 => FixRecord'.has_vtg = 1]_vars

\* A GSV with an empty count was decoded and the satellite-view flag, set by
\* an earlier GSV, is still set.
C4_Witness ==
    /\ Parsed(LineOf("GP", GSVBodies[2]))
    /\ FixRecord.has_gsv = 1
    /\ FixRecord.satellites_visible = 11

\* x rounded to one decimal, halves away from zero.
NearestTenth(x) ==
    LET a == Abs(x[1])
        q == (20 * a + x[2]) \div (2 * x[2])
    IN  Frac(IF x[1] < 0 THEN -q ELSE q, 10)

\* v is x rounded to one decimal: a multiple of 0.1 that is no further than
\* 0.05 from x (where x lies half-way between two tenths, either of them).
RoundsTo(x, v) ==
    /\ ~isnan(v)
    /\ 10 % v[2] = 0
    /\ ~DGt(FracAdd(v, DNeg(x)), Frac(1, 20))
    /\ ~DLt(FracAdd(v, DNeg(x)), Frac(-1, 20))

\* hdop * 4.9 * m, m by the number of satellites used.
ExpectedAccuracy(hdop, count) ==
    LET m == IF count >= 8 THEN Frac(7, 10)
             ELSE IF count >= 5 THEN Frac(9, 10)
             ELSE IF count = 4 THEN DInt(1)
             ELSE Frac(15, 10)
    IN  FracMul(FracMul(hdop, Frac(49, 10)), m)

\* C5: if HDOP is present and a satellites-used count has been supplied,
\* accuracy is present and is hdop * 4.9 * m rounded to one decimal, of the
\* HDOP and count now stored; otherwise accuracy is absent and its flag clear.
C5_AccuracyFresh ==
    IF ~isnan(FixRecord.hdop) /\ FixRecord.has_satellites_used = 1
    THEN /\ FixRecord.has_accuracy = 1
         /\ RoundsTo(ExpectedAccuracy(FixRecord.hdop, FixRecord.satellites_used),
                     FixRecord.accuracy)
    ELSE /\ FixRecord.has_accuracy = 0
         /\ isnan(FixRecord.accuracy)

\* A GSA replaced the HDOP of a GGA that reported four satellites.
C5_Witness ==
    /\ Parsed(LineOf("GP", GSABodies[1]))
    /\ FixRecord.satellites_used = 4
    /\ FixRecord.hdop = Frac(13, 10)
    /\ FixRecord.accuracy = Frac(64, 10)

\* The decimal numeral of n >= 0, padded with zeros to at least w digits.
RECURSIVE Numeral(_, _)
Numeral(n, w) ==
    LET last == CharAt("0123456789", (n % 10) + 1)
    IN  IF n < 10 /\ w <= 1 THEN last ELSE Numeral(n \div 10, w - 1) \o last

\* YYYY-MM-DDThh:mm:ssZ of the date and time the record holds.
Stamp(g) ==
    Numeral(g.year, 4) \o "-" \o Numeral(g.month, 2) \o "-" \o Numeral(g.day, 2) \o "T"
    \o Numeral(g.hour, 2) \o ":" \o Numeral(g.minute, 2) \o ":" \o Numeral(g.second, 2) \o "Z"

DateIncomplete(g) == g.year = 0 \/ g.month = 0 \/ g.day = 0

\* C6, as the claim states it: the timestamp is empty if any of year, month,
\* day is zero, and otherwise is the string YYYY-MM-DDThh:mm:ssZ built from
\* the date and time now stored.
C6_TimestampFresh ==
    FixRecord.timestamp = IF DateIncomplete(FixRecord) THEN "" ELSE Stamp(FixRecord)

\* C6, amended: the timestamp is empty if any of year, month, day is zero or if
\* the string built from the date and time now stored is longer than 24
\* characters, and otherwise is that string.
C6_TimestampFreshOrEmpty ==
    FixRecord.timestamp =
        IF DateIncomplete(FixRecord) \/ Len(Stamp(FixRecord)) > 24 THEN "" ELSE Stamp(FixRecord)

\* A GGA changed the time of day after an RMC had supplied the date.
C6_Witness ==
    /\ Parsed(LineOf("GP", GGABodies[1]))
    /\ FixRecord.year = 2024
    /\ FixRecord.timestamp = "2024-03-23T12:34:56Z"

\* C7: latitude is absent or in [-90, 90], longitude is absent or in
\* [-180, 180].
C7_CoordinatesInRange ==
    /\ \/ Absent(FixRecord.latitude)
       \/ ~BLt(FixRecord.latitude, OfInt(-90)) /\ ~BLt(OfInt(90), FixRecord.latitude)
    /\ \/ Absent(FixRecord.longitude)
       \/ ~BLt(FixRecord.longitude, OfInt(-180)) /\ ~BLt(OfInt(180), FixRecord.longitude)

\* The index of the first decimal point of raw, counted from 0; -1 if none.
PointIndex(raw) == strchr(raw, 1, ".") - 1

\* The layout the point's index selects is not one the codec knows.
NoLayout(raw) == Len(raw) < 7 \/ PointIndex(raw) \notin 2..6

DegreeChars(raw) ==
    CASE PointIndex(raw) = 2 -> 1
      [] PointIndex(raw) = 3 -> 2
      [] PointIndex(raw) = 4 -> 2
      [] PointIndex(raw) = 5 -> 3
      [] PointIndex(raw) = 6 -> 4

\* D + M/60, negated for the hemispheres S and W: the fraction, D the number
\* read from the first k characters and M the number read from the first
\* room of those that follow.  It is not a number when D is not, and when D
\* and M are infinities of opposite sign.
DegreesAndMinutes(raw, hemisphere, room) ==
    LET k == DegreeChars(raw)
        D == Value(atof(SubSeq(raw, 1, k)))
        M == Value(atof(SubSeq(raw, k + 1, IF Len(raw) < k + room THEN Len(raw) ELSE k + room)))
        v == FracAdd(D, FracDiv(M, DInt(60)))
    IN  IF hemisphere \in {"S", "W"} THEN DNeg(v) ELSE v

\* C8, as the claim states it: the codec yields absent exactly when raw has
\* fewer than 7 characters, no decimal point, or its first point at an index
\* outside 2..6; otherwise it yields D + M/60, D the number the first k
\* characters form and M the number the rest form, negated iff the hemisphere
\* is S or W.
C8_DecodeLayout ==
    coord_out.done =>
        /\ Absent(coord_out.value) <=> NoLayout(coord_in[1])
        /\ ~NoLayout(coord_in[1]) =>
               IsDoubleOf(coord_out.value,
                          DegreesAndMinutes(coord_in[1], coord_in[2], Len(coord_in[1])))

\* C8, amended: the codec yields absent exactly when raw has fewer than 7
\* characters, no decimal point, its first point at an index outside 2..6, or
\* a D + M/60 that is not a number (D reads as not-a-number, or D and M read
\* as infinities of opposite sign); otherwise it yields D + M/60, M the number
\* read from the first 15 characters behind the degrees, negated iff the
\* hemisphere is S or W.
C8_DecodeLayoutOrNaN ==
    coord_out.done =>
        /\ Absent(coord_out.value) <=>
               \/ NoLayout(coord_in[1])
               \/ isnan(DegreesAndMinutes(coord_in[1], coord_in[2], 15))
        /\ ~NoLayout(coord_in[1]) =>
               IsDoubleOf(coord_out.value, DegreesAndMinutes(coord_in[1], coord_in[2], 15))

\* 1811.81 S was decoded to -(18 + 11.81/60).
C8_Witness ==
    /\ coord_out.done
    /\ coord_in = <<"1811.81", "S">>
    /\ IsDoubleOf(coord_out.value, DNeg(FracAdd(DInt(18), FracDiv(Frac(1181, 100), DInt(60)))))

\* The RMC decoder takes the line: it is checksum-valid, an RMC the dispatcher
\* knows, with at least 12 fields.
DecodedRmc(line) ==
    /\ line \in ValidLines
    /\ TypeOf(line) = "RMC"
    /\ Dispatched(line)
    /\ FieldCount(line) >= MinFields("RMC")

StatusActive(line) == CharAt(Fields(line).f[2], 1) = "A"

\* C9: valid is false at the start and after reset; after each decoded RMC it
\* is true exactly if the status field begins with A; no other line and no
\* other call changes it.
C9_ValidFollowsStatus ==
    /\ [](call.op \in {"load", "reset"} => FixRecord.valid = 0)
    /\ [][call'.op # "reset" =>
             IF IsParse' /\ DecodedRmc(call'.arg)
             THEN FixRecord'.valid = (IF StatusActive(call'.arg) THEN 1 ELSE 0)
             ELSE FixRecord'.valid = FixRecord.valid]_vars

\* An RMC of status V was decoded on a record that holds a date, and valid is
\* false.
C9_Witness ==
    /\ Parsed(LineOf("GP", RMCBodies[2]))
    /\ DecodedRmc(call.arg)
    /\ ~StatusActive(call.arg)
    /\ FixRecord.valid = 0
    /\ FixRecord.has_gga = 1

\* C10: decoding the line of a sentence under any talker ID leaves the record
\* that decoding the same sentence under GP leaves.
C10_TalkersEquivalent ==
    [][\A t \in Talkers, k \in 1..Len(TypeBodies) :
          (IsParse' /\ call'.arg = LineOf(t, TypeBodies[k][1])) =>
              LET o == parse_nmea_string(LineOf("GP", TypeBodies[k][1]),
                                         current_gps_data, gps_data_initialized)
              IN  FixRecord' = View(o.data, o.initialized)]_vars

----------------------------------------------------------------------------
(* The reset scenario: from program start some sentences are decoded, then *)
(* reset() is called, then lines are fed; history holds the lines fed      *)
(* after the reset.                                                        *)

\* The number of sentences decoded before the reset.
MaxSoil == 2

\* The number of lines fed after the reset.
MaxReplay == 2

\* The sentences decoded before the reset: a complete one of each type.
Soil ==
    /\ history = <<>>
    /\ call.op # "reset"
    /\ ncalls < MaxSoil
    /\ \E line \in {LineOf("GP", TypeBodies[k][1]) : k \in 1..Len(TypeBodies)} :
           \E out \in {parse_nmea_string(line, current_gps_data, gps_data_initialized)} :
               Call("parse", line, out)
    /\ UNCHANGED history

ResetOnce ==
    /\ history = <<>>
    /\ call.op # "reset"
    /\ \E out \in {reset_gps_data(current_gps_data, gps_data_initialized)} :
           Call("reset", "", out)
    /\ UNCHANGED history

\* The lines fed after the reset: two sentences of each type, the damaged
\* lines and a line that is too short.
ReplayLines ==
    {LineOf("GP", TypeBodies[k][i]) : k \in 1..Len(TypeBodies), i \in 1..2}
    \cup DamagedLines \cup {"$GP*1"}

Replay ==
    /\ call.op = "reset" \/ history # <<>>
    /\ Len(history) < MaxReplay
    /\ \E line \in ReplayLines : Feed(line)

NextReset == Soil \/ ResetOnce \/ Replay

SpecReset == Init /\ [][NextReset]_vars

\* The record as the claim spells it out.
FreshRecord ==
    [latitude |-> BNaN, longitude |-> BNaN, altitude |-> NaN, speed |-> NaN,
     course |-> NaN, hdop |-> NaN, vdop |-> NaN, pdop |-> NaN, accuracy |-> NaN,
     satellites_used |-> 0, satellites_visible |-> 0, fix_type |-> 0,
     year |-> 0, month |-> 0, day |-> 0, hour |-> 0, minute |-> 0, second |-> 0,
     valid |-> 0, has_gga |-> 0, has_gsa |-> 0, has_gsv |-> 0, has_vtg |-> 0,
     has_satellites_used |-> 0, has_satellites_visible |-> 0, has_accuracy |-> 0,
     timestamp |-> ""]

\* parse(line) on the statics that the outcome p of an earlier call left.
ParseAfter(line, p) == parse_nmea_string(line, p.data, p.initialized)

\* The outcome of decoding the lines of h, in their order, from program start.
RECURSIVE FromStart(_)
FromStart(h) ==
    IF h = <<>> THEN [data |-> ZeroData, initialized |-> 0, ret |-> None]
    ELSE ParseAfter(h[Len(h)], FromStart(SubSeq(h, 1, Len(h) - 1)))

\* C11: right after reset() every field of the record has its value in a
\* freshly created record, and the lines decoded after a reset leave the record
\* and return the snapshot that the same lines leave and return when decoded
\* from program start.
C11_ResetIsFresh ==
    /\ call.op = "reset" => FixRecord = FreshRecord
    /\ (call.op = "reset" \/ history # <<>>) =>
           /\ FixRecord = View(FromStart(history).data, FromStart(history).initialized)
           /\ history # <<>> => ret = FromStart(history).ret

\* Two sentences were decoded, reset() was called, and a GSA was decoded after
\* it: the record holds that GSA's HDOP and nothing of what came before.
C11_Witness ==
    /\ ncalls = MaxSoil + 2
    /\ history = <<LineOf("GP", GSABodies[1])>>
    /\ FixRecord.hdop = Frac(13, 10)
    /\ FixRecord.has_gga = 0
    /\ Absent(FixRecord.latitude)

----------------------------------------------------------------------------

\* The snapshot that holds valid = false and no other key.
OnlyInvalid == [kind |-> "dict", value |-> [k \in {"valid"} |-> FALSE]]

\* No line has been accepted and reset() has not been called.
Untouched == gps_data_initialized = 0

\* C12: as long as no line has been accepted - none decoded, or only lines
\* rejected for length or checksum - current() returns the snapshot that holds
\* valid = false and no other key, and so it does right after reset().  (The
\* program starts untouched; a rejected line, current() and
\* calculate_distance() leave it untouched.)
C12_CurrentBeforeFirstFix ==
    /\ [](call.op = "load" => Untouched)
    /\ [][/\ (Untouched /\ IsParse' /\ ret'.kind = "None") => Untouched'
          /\ (Untouched /\ call'.op \in {"current", "distance"}) => Untouched'
          /\ (call'.op = "current" /\ (Untouched \/ call.op = "reset"))
                 => ret' = OnlyInvalid]_vars

\* current() was called as the third call of a program that has accepted no
\* line so far.
C12_Witness ==
    /\ call.op = "current"
    /\ ncalls = 3
    /\ Untouched
    /\ ret = OnlyInvalid

----------------------------------------------------------------------------

\* The last call returned a snapshot.
ReturnedSnapshot == call.op \in {"parse", "current"} /\ ret.kind = "dict"

DateComplete == FixRecord.year # 0 /\ FixRecord.month # 0 /\ FixRecord.day # 0

\* C13: in every snapshot that parse or current() returns, the date entry is
\* present exactly if year, month and day are all nonzero, and so is the time
\* entry.
C13_DateAndTimeTogether ==
    ReturnedSnapshot =>
        /\ "date" \in DOMAIN ret.value <=> DateComplete
        /\ "time" \in DOMAIN ret.value <=> DateComplete

\* C13 as the code has it: in every snapshot that parse or current() returns,
\* the date entry is present exactly if year, month and day are all nonzero,
\* and the time entry is present exactly if year is nonzero.
C13_DateByAllTimeByYear ==
    ReturnedSnapshot =>
        /\ "date" \in DOMAIN ret.value <=> DateComplete
        /\ "time" \in DOMAIN ret.value <=> FixRecord.year # 0

\* An RMC whose date field has day and month 00 was decoded: the snapshot
\* shows the time and no date.
C13_Witness ==
    /\ Parsed(LineOf("GP", RMCBodies[5]))
    /\ ReturnedSnapshot
    /\ FixRecord.year = 2024
    /\ FixRecord.month = 0
    /\ "time" \in DOMAIN ret.value
    /\ "date" \notin DOMAIN ret.value

----------------------------------------------------------------------------

\* The record holds no position: its latitude or its longitude is absent.
NoPosition == Absent(FixRecord.latitude) \/ Absent(FixRecord.longitude)

\* C14: calculate_distance with one argument returns None, raising nothing,
\* exactly if the record's latitude or longitude is absent - as it is before
\* any line was accepted; a distance it returns is measured from the record's
\* latitude and longitude; and the call never changes the record.
C14_DistanceNeedsPosition ==
    [][call'.op = "distance" =>
          /\ ret'.kind = "None" <=> NoPosition
          /\ ret'.kind = "float" =>
                 /\ ret'.value[1] = FixRecord.latitude
                 /\ ret'.value[2] = FixRecord.longitude
          /\ FixRecord' = FixRecord]_vars

\* calculate_distance was called on a record with a position and returned the
\* distance from that position.
C14_Witness ==
    /\ call.op = "distance"
    /\ ret.kind = "float"
    /\ ~NoPosition
    /\ ret.value[1] = FixRecord.latitude
    /\ FixRecord.has_gga = 1

----------------------------------------------------------------------------

\* The next call decodes an RMC on a record that has seen a GGA.
RmcAfterGga == FixRecord.has_gga = 1 /\ IsParse' /\ DecodedRmc(call'.arg)

\* C15: once a GGA has been observed, decoding any RMC leaves latitude and
\* longitude unchanged, even if the GGA carried empty or undecodable
\* coordinates.
C15_RmcNeverAfterGga ==
    [][RmcAfterGga =>
          /\ FixRecord'.latitude = FixRecord.latitude
          /\ FixRecord'.longitude = FixRecord.longitude]_vars

\* The RMC line carries text in the coordinate field k and its direction field.
CarriesCoordinate(line, k) ==
    Len(Fields(line).f[k]) > 0 /\ Len(Fields(line).f[k + 1]) > 0

\* C15 as the code has it: once a GGA has been observed, decoding any RMC
\* leaves a latitude that is present unchanged and a longitude that is present
\* unchanged; a coordinate that is absent (the GGA carried it empty or
\* undecodable) is taken from the RMC if the RMC carries it.
C15_RmcFillsOnlyAbsent ==
    [][RmcAfterGga =>
          /\ FixRecord'.latitude =
                 IF Absent(FixRecord.latitude) /\ CarriesCoordinate(call'.arg, 3)
                 THEN CoordsOf(call'.arg, 3)[1] ELSE FixRecord.latitude
          /\ FixRecord'.longitude =
                 IF Absent(FixRecord.longitude) /\ CarriesCoordinate(call'.arg, 5)
                 THEN CoordsOf(call'.arg, 3)[2] ELSE FixRecord.longitude]_vars

\* An RMC with coordinates was decoded on a record that holds the coordinates
\* of a GGA: the record still holds the GGA's.
C15_Witness ==
    /\ Parsed(LineOf("GP", RMCBodies[1]))
    /\ FixRecord.has_gga = 1
    /\ <<FixRecord.latitude, FixRecord.longitude>> = CoordsOf(LineOf("GP", GGABodies[1]), 2)
    /\ CoordsOf(call.arg, 3)[2] # FixRecord.longitude

----------------------------------------------------------------------------

\* x is absent or a whole number of tenths.
AbsentOrOneDecimal(x) == isnan(x) \/ 10 % x[2] = 0

\* C16: in every reachable state each of the stored speed, course, hdop, vdop
\* and pdop is absent or a multiple of 0.1, whichever sentence wrote it.
C16_StoredOneDecimal ==
    /\ AbsentOrOneDecimal(FixRecord.speed)
    /\ AbsentOrOneDecimal(FixRecord.course)
    /\ AbsentOrOneDecimal(FixRecord.hdop)
    /\ AbsentOrOneDecimal(FixRecord.vdop)
    /\ AbsentOrOneDecimal(FixRecord.pdop)

----------------------------------------------------------------------------

\* C17: every comma-delimited field of 0 to 15 characters is returned verbatim
\* at its position, and every longer field is returned as the empty string at
\* its position; no other field is shifted or dropped.
C17_FieldCap ==
    fields_out.done =>
        /\ fields_out.n = Len(fields_in) + 1
        /\ fields_out.f[0] = TokenId
        /\ \A i \in 1..Len(fields_in) :
               fields_out.f[i] = IF Len(fields_in[i]) <= 15 THEN fields_in[i] ELSE ""

----------------------------------------------------------------------------

\* The line ends with a '*' and two hexadecimal digits, the first '*' it holds.
TwoDigitChecksum(line) ==
    /\ strchr(line, 1, "*") # 0
    /\ Len(line) = strchr(line, 1, "*") + 2
    /\ isxdigit(CharAt(line, Len(line) - 1))
    /\ isxdigit(CharAt(line, Len(line)))

Misframed(line) == CharAt(line, 1) # "$" \/ ~TwoDigitChecksum(line)

\* C18: a line that does not start with '$', or holds no '*', or whose '*' is
\* not followed by exactly two hexadecimal digits is rejected - parse returns
\* None and the record is unchanged - whatever the XOR of its payload.
C18_MisframedRejected ==
    [][(IsParse' /\ Misframed(call'.arg))
       => (FixRecord' = FixRecord /\ ret'.kind = "None")]_vars

----------------------------------------------------------------------------
(* The dilution scenario: from program start GGA and GSA sentences in any  *)
(* order, with different HDOP values and with none.  history holds the     *)
(* lines fed.                                                              *)

\* The number of lines the scenario feeds.
MaxDop == 3

\* A GSA whose HDOP differs from that of every other sentence of the input.
DopLines ==
    { LineOf("GP", GGABodies[1]), LineOf("GP", GGABodies[2]), LineOf("GP", GGABodies[3]),
      LineOf("GP", GSABodies[1]), LineOf("GP", GSABodies[2]), LineOf("GN", "GSA,A,3,04,05,,09,12,,,24,,,,,1.6,0.8,1.4") }

FeedDop == Len(history) < MaxDop /\ \E line \in DopLines : Feed(line)

NextDop == FeedDop

SpecDop == Init /\ [][NextDop]_vars

\* The line is a GSA that its decoder takes, with text in its HDOP field.
GsaWithHdop(line) ==
    /\ TypeOf(line) = "GSA"
    /\ Dispatched(line)
    /\ FieldCount(line) >= MinFields("GSA")
    /\ Len(Fields(line).f[16]) > 0

\* The HDOP the GSA line carries, to one decimal.
HdopOf(line) == NearestTenth(atof(Fields(line).f[16]))

\* C19: once a GSA with a non-empty HDOP field has been decoded, the stored
\* HDOP is that of the most recent such GSA, and the accuracy is derived from
\* it, whatever HDOP the GGAs decoded before or after it carry.
C19_GsaHdopPriority ==
    \A i \in 1..Len(history) :
        (GsaWithHdop(history[i]) /\ \A j \in (i + 1)..Len(history) : ~GsaWithHdop(history[j]))
        => /\ FixRecord.hdop = HdopOf(history[i])
           /\ FixRecord.has_satellites_used = 1 =>
                  RoundsTo(ExpectedAccuracy(HdopOf(history[i]), FixRecord.satellites_used),
                           FixRecord.accuracy)

----------------------------------------------------------------------------

\* The VTG decoder takes the line: it is checksum-valid, a VTG the dispatcher
\* knows, with at least 8 fields.
DecodedVtg(line) ==
    /\ line \in ValidLines
    /\ TypeOf(line) = "VTG"
    /\ Dispatched(line)
    /\ FieldCount(line) >= MinFields("VTG")

\* The speed is absent or below the noise floor of 0.1 m/s.
NoSpeedToKeep(speed) == isnan(speed) \/ DLt(speed, Frac(1, 10))

\* The course that a VTG line carries, to one decimal, and its speed in m/s.
VtgCourseOf(line) == NearestTenth(atof(Fields(line).f[1]))

VtgSpeedOf(line) == FracDiv(atof(Fields(line).f[7]), Frac(36, 10))

\* C20: decoding a VTG of at least 8 fields leaves the course unchanged when
\* it is present and the speed unchanged when it is present and at least
\* 0.1 m/s; it writes the course it carries only when the course is absent and
\* the speed it carries only when the speed is absent or below 0.1 m/s; and it
\* sets the ground-track flag.
C20_VtgFallbackOnly ==
    [][(IsParse' /\ DecodedVtg(call'.arg)) =>
          /\ FixRecord'.course =
                 IF isnan(FixRecord.course) /\ Len(Fields(call'.arg).f[1]) > 0
                 THEN VtgCourseOf(call'.arg) ELSE FixRecord.course
          /\ IF NoSpeedToKeep(FixRecord.speed) /\ Len(Fields(call'.arg).f[7]) > 0
             THEN RoundsTo(VtgSpeedOf(call'.arg), FixRecord'.speed)
             ELSE FixRecord'.speed = FixRecord.speed
          /\ FixRecord'.has_vtg = 1]_vars

\* A VTG was decoded on a record that holds the course and the speed of an
\* RMC: both are still the RMC's, and the ground-track flag is set.
C20_Witness ==
    /\ Parsed(LineOf("GP", VTGBodies[1]))
    /\ FixRecord.course = Frac(844, 10)
    /\ FixRecord.speed = Frac(115, 10)
    /\ RoundsTo(VtgSpeedOf(call.arg), Frac(28, 10))
    /\ FixRecord.has_vtg = 1

----------------------------------------------------------------------------

\* The fields each sentence type owns.
Owned(type) ==
    CASE type = "GGA" -> {"altitude", "fix_type", "satellites_used", "has_gga"}
      [] type = "RMC" -> {"year", "month", "day", "valid"}
      [] type = "GSA" -> {"pdop", "vdop", "has_gsa"}
      [] type = "GSV" -> {"satellites_visible", "has_gsv"}
      [] type = "VTG" -> {"has_vtg"}

\* The sentence types one of whose own fields differs between records g and h.
TypesTouched(g, h) == {type \in KnownTypes : \E k \in Owned(type) : g[k] # h[k]}

\* C21: reset aside, a field that a sentence type owns changes only in a call
\* of parse that accepts a line of that type, and no call changes fields of two
\* types: at most one decoder runs per line.
C21_FieldOwnership ==
    [][call'.op # "reset" =>
          /\ \A type \in TypesTouched(FixRecord, FixRecord') :
                 IsParse' /\ ret'.kind = "dict" /\ TypeOf(call'.arg) = type
          /\ Cardinality(TypesTouched(FixRecord, FixRecord')) <= 1]_vars

\* A GGA was decoded on a record that an RMC had filled: the GGA's own fields
\* are written and the RMC's date and status are as the RMC left them.
C21_Witness ==
    /\ Parsed(LineOf("GP", GGABodies[1]))
    /\ FixRecord.has_gga = 1
    /\ FixRecord.altitude = Frac(5454, 10)
    /\ FixRecord.valid = 1
    /\ FixRecord.year = 2024

----------------------------------------------------------------------------

\* The presence flag of a sentence type.
FlagOf(type) ==
    CASE type = "GGA" -> "has_gga"
      [] type = "GSA" -> "has_gsa"
      [] type = "GSV" -> "has_gsv"
      [] type = "VTG" -> "has_vtg"

\* The line is checksum-valid, of a type that has a presence flag, under a
\* talker ID the dispatcher knows for it, with the fields its decoder asks for.
MeetsFieldCount(line) ==
    /\ line \in ValidLines
    /\ TypeOf(line) \in {"GGA", "GSA", "GSV", "VTG"}
    /\ Dispatched(line)
    /\ FieldCount(line) >= MinFields(TypeOf(line))

\* C22: after decoding a checksum-valid GGA, GSA, GSV or VTG that has at least
\* the fields its decoder asks for, the presence flag of its type is set,
\* whatever its fields hold - in particular has_gsv after a GSV of 4 fields.
C22_FlagOnFieldCount ==
    [][(IsParse' /\ MeetsFieldCount(call'.arg))
       => FixRecord'[FlagOf(TypeOf(call'.arg))] = 1]_vars

----------------------------------------------------------------------------

\* C23: a latitude that is present is present after every call of parse, and
\* so is a longitude; only reset makes them absent.
C23_CoordinatesKept ==
    [][IsParse' =>
          /\ ~Absent(FixRecord.latitude) => ~Absent(FixRecord'.latitude)
          /\ ~Absent(FixRecord.longitude) => ~Absent(FixRecord'.longitude)]_vars

----------------------------------------------------------------------------
(* The sequence scenario: from program start any lines of a small menu, in *)
(* any order and with repetitions.  history holds the lines fed.           *)

\* The number of lines the scenario feeds.
MaxSequence == 3

\* A GGA that carries a latitude and no longitude.
SequenceLines ==
    { LineOf("GP", GGABodies[1]), LineOf("GP", "GGA,123456,4042.600,N,,,1,08,0.9,545.4,M,46.9,M,,"), LineOf("GP", GGABodies[3]),
      LineOf("GP", RMCBodies[1]), LineOf("GP", RMCBodies[2]),
      LineOf("GP", GSABodies[1]), LineOf("GP", GSVBodies[1]),
      LineOf("GP", VTGBodies[1]), LineOf("GN", VTGBodies[2]),
      Corrupt(Sentence("GP" \o GGABodies[1]), 16, "9") }

FeedSequence == Len(history) < MaxSequence /\ \E line \in SequenceLines : Feed(line)

NextSequence == FeedSequence

SpecSequence == Init /\ [][NextSequence]_vars

\* The line is a GGA or an RMC that carries the position <<lat, lon>>.
CarriesPosition(line, lat, lon) ==
    \/ TypeOf(line) = "GGA" /\ CoordsOf(line, 2) = <<lat, lon>>
    \/ TypeOf(line) = "RMC" /\ CoordsOf(line, 3) = <<lat, lon>>

\* C24: whenever latitude and longitude are both present, they were written by
\* one decoded sentence: some line decoded so far carries both of them.
C24_OnePosition ==
    (~Absent(FixRecord.latitude) /\ ~Absent(FixRecord.longitude)) =>
        \E i \in 1..Len(history) :
            CarriesPosition(history[i], FixRecord.latitude, FixRecord.longitude)

----------------------------------------------------------------------------

\* The lines fed before the last one.
Earlier == SubSeq(history, 1, Len(history) - 1)

\* The last two lines fed are the same line.
FedTwice == Len(history) >= 2 /\ history[Len(history)] = history[Len(history) - 1]

\* C25: decoding a line a second time in a row leaves the record that
\* decoding it once left, and returns the snapshot that the first call
\* returned.
C25_DecodeIdempotent ==
    FedTwice =>
        /\ FixRecord = View(FromStart(Earlier).data, FromStart(Earlier).initialized)
        /\ ret = FromStart(Earlier).ret

\* A VTG was decoded twice after an RMC that reported speed 0.0 and no course:
\* the record holds the speed and course the VTG wrote the first time.
C25_Witness ==
    /\ history = <<LineOf("GP", RMCBodies[2]), LineOf("GP", VTGBodies[1]),
                   LineOf("GP", VTGBodies[1])>>
    /\ FedTwice
    /\ FixRecord.speed = Frac(28, 10)
    /\ FixRecord.course = Frac(547, 10)
    /\ ret.kind = "dict"

====
